---- MODULE Spec2Model ----
(***************************************************************************)
(* Invoice lifecycle and reminder scheduling of invoice_app.               *)
(*                                                                         *)
(* Time is counted in whole days: `now` is datetime.now(), due_date and    *)
(* every timestamp are days, and (datetime.now() - due_date).days is       *)
(* now - due_date.                                                         *)
(***************************************************************************)
EXTENDS Integers, Sequences, FiniteSets, TLC

\* ------------------------------------------------------------ bounds
\* Last day the clock reaches.
MaxDay == 3
\* process_reminders runs started per day.
MaxRunsPerDay == 2
\* Last day of the clock in the reminder-policy specification.
MaxPolicyDay == 20
\* The invoice of the store in the lifecycle specification, the invoices of a batch,
\* and the due dates invoices are created with.
InvoiceIds == {1}
BatchIds == {1, 2}
DueDates == {0, 1}

\* ------------------------------------------------------------ values
\* Optional[datetime] = None, and a None return value.
None == -1

DRAFT == "draft"
SENT == "sent"
PAID == "paid"
OVERDUE == "overdue"
CANCELLED == "cancelled"
InvoiceStatus == {DRAFT, SENT, PAID, OVERDUE, CANCELLED}

\* A new invoice: Invoice(due_date = d) created at time t.
NewInvoice(d, t) ==
    [due_date |-> d, status |-> DRAFT, sent_at |-> None, paid_at |-> None,
     reminder_sent_at |-> <<>>, updated_at |-> t]

\* ReminderSettings(owner_id): the dataclass defaults.
DefaultReminderDays == <<3, 7, 14>>
\* A subject or message template is the sequence of the placeholders it references;
\* the text between them plays no part. The default subjects reference
\* {invoice_number}, the default messages the customer, the invoice and its dates
\* and amount.
DefaultSubjects == [n \in 1..3 |-> <<"invoice_number">>]
DefaultTemplates ==
    [n \in 1..3 |-> <<"customer_name", "invoice_number", "days_overdue",
                      "invoice_number", "issue_date", "due_date", "currency", "total">>]
DefaultSettings ==
    [enabled |-> TRUE, reminder_days |-> DefaultReminderDays, last_run |-> None,
     subjects |-> DefaultSubjects, templates |-> DefaultTemplates]

\* The reminder schedules an owner has configured.
ReminderDaysChoices == {<<1, 2>>, <<2, 1>>}

VARIABLES
    now,               \* datetime.now(), in days
    invoices,          \* the invoice store: id -> Invoice
    reminder_settings, \* the settings store of the owner: <<>> or <<ReminderSettings>>
    pc,                \* "idle", or "loop" inside process_reminders
    overdue_invoices,  \* process_reminders: the listed invoices not yet processed
    results,           \* process_reminders: its counters, inside the loop
    returned,          \* what the operation that has just returned gave its caller
    outbox,            \* id -> the reminder numbers emailed to the customer, in order
    last,              \* the last loop iteration: invoice, decision and outcomes
    runs_today,        \* process_reminders runs started on day `now`
    runs               \* process_reminders calls running at the same time: call -> its locals

vars == <<now, invoices, reminder_settings, pc, overdue_invoices, results,
          returned, outbox, last, runs_today, runs>>

\* ------------------------------------------------------------ Invoice
\* send stamping the invoice whatever its status.
send_from_any_status(invoice, t) ==
    [invoice EXCEPT !.status = SENT, !.sent_at = t, !.updated_at = t]

\* send stamping an invoice that was sent already once more.
send_again(invoice, t) ==
    IF invoice.status \in {DRAFT, SENT}
    THEN [invoice EXCEPT !.status = SENT, !.sent_at = t, !.updated_at = t]
    ELSE invoice

send(invoice, t) ==
    IF invoice.status = DRAFT
    THEN [invoice EXCEPT !.status = SENT, !.sent_at = t, !.updated_at = t]
    ELSE invoice

\* mark_as_paid stamping paid_at without the status.
mark_as_paid_keeps_status(invoice, t) ==
    [invoice EXCEPT !.paid_at = t, !.updated_at = t]

\* mark_as_paid moving the status without stamping paid_at.
mark_as_paid_unstamped(invoice, t) ==
    [invoice EXCEPT !.status = PAID, !.updated_at = t]

mark_as_paid(invoice, t) ==
    [invoice EXCEPT !.status = PAID, !.paid_at = t, !.updated_at = t]

cancel(invoice, t) ==
    [invoice EXCEPT !.status = CANCELLED, !.updated_at = t]

\* check_overdue flipping on the due day already.
is_newly_overdue_on_due_day(invoice, t) ==
    /\ invoice.status = SENT
    /\ invoice.due_date # None
    /\ invoice.due_date <= t

\* check_overdue looking at the due date alone.
is_newly_overdue_any_status(invoice, t) ==
    /\ invoice.status \in {SENT, OVERDUE}
    /\ invoice.due_date # None
    /\ invoice.due_date < t

\* The return value of check_overdue: whether the invoice flips to OVERDUE.
is_newly_overdue(invoice, t) ==
    /\ invoice.status = SENT
    /\ invoice.due_date # None
    /\ invoice.due_date < t

\* check_overdue flipping the status without update().
check_overdue_without_update(invoice, t) ==
    IF is_newly_overdue(invoice, t)
    THEN [invoice EXCEPT !.status = OVERDUE]
    ELSE invoice

check_overdue(invoice, t) ==
    IF is_newly_overdue(invoice, t)
    THEN [invoice EXCEPT !.status = OVERDUE, !.updated_at = t]
    ELSE invoice

\* record_reminder_sent moving the invoice to a reminder-sent status.
record_reminder_sent_moves_status(invoice, t) ==
    [invoice EXCEPT !.status = "reminder_sent",
                    !.reminder_sent_at = Append(@, t), !.updated_at = t]

record_reminder_sent(invoice, t) ==
    [invoice EXCEPT !.reminder_sent_at = Append(@, t), !.updated_at = t]

\* ------------------------------------------------------------ stores
\* invoice_repository.list({'status': s}): the ids of the stored invoices with status s.
repo_list(store, s) == {i \in DOMAIN store : store[i].status = s}

\* invoice_repository.save(invoice)
repo_save(store, i, invoice) == [store EXCEPT ![i] = invoice]

\* check_overdue_invoices: the listed SENT invoices for which check_overdue is true.
newly_overdue(store, t) ==
    {i \in repo_list(store, SENT) : is_newly_overdue(store[i], t)}

\* reminder_repository.get_by_owner_id(owner_id): <<>> stands for no settings.
get_by_owner_id(st) == st

\* ------------------------------------------------------------ ReminderService
\* get_settings: the stored settings, or new default settings.
get_settings(st) ==
    IF get_by_owner_id(st) = <<>> THEN DefaultSettings ELSE get_by_owner_id(st)[1]

days_overdue(invoice, t) == t - invoice.due_date

\* _get_reminder_number sending only once the threshold is exceeded.
get_reminder_number_late(settings, invoice, t) ==
    IF invoice.status # OVERDUE THEN None
    ELSE LET reminders_sent == Len(invoice.reminder_sent_at) IN
         IF reminders_sent >= Len(settings.reminder_days) THEN None
         ELSE LET next_threshold == settings.reminder_days[reminders_sent + 1] IN
              IF days_overdue(invoice, t) <= next_threshold THEN None
              ELSE reminders_sent + 1

\* _get_reminder_number choosing the last threshold already reached.
get_reminder_number_by_days(settings, invoice, t) ==
    IF invoice.status # OVERDUE THEN None
    ELSE LET reminders_sent == Len(invoice.reminder_sent_at)
             reached == {k \in 1..Len(settings.reminder_days) :
                            days_overdue(invoice, t) >= settings.reminder_days[k]}
             latest == IF reached = {} THEN 0
                       ELSE CHOOSE k \in reached : \A m \in reached : m <= k
         IN  IF latest <= reminders_sent THEN None ELSE latest

\* _get_reminder_number reading the threshold of the reminder sent last.
get_reminder_number_prev_threshold(settings, invoice, t) ==
    IF invoice.status # OVERDUE THEN None
    ELSE LET reminders_sent == Len(invoice.reminder_sent_at) IN
         IF reminders_sent >= Len(settings.reminder_days) THEN None
         ELSE LET next_threshold ==
                      settings.reminder_days[IF reminders_sent = 0 THEN 1 ELSE reminders_sent]
              IN  IF days_overdue(invoice, t) < next_threshold THEN None
                  ELSE reminders_sent + 1

_get_reminder_number(settings, invoice, t) ==
    IF invoice.status # OVERDUE THEN None
    ELSE LET reminders_sent == Len(invoice.reminder_sent_at) IN
         IF reminders_sent >= Len(settings.reminder_days) THEN None
         ELSE LET next_threshold == settings.reminder_days[reminders_sent + 1] IN
              IF days_overdue(invoice, t) < next_threshold THEN None
              ELSE reminders_sent + 1

\* What the template rendering, the PDF service and the email service do with one
\* reminder: the email is delivered, send_email returns False (an SMTP error or a
\* timeout is caught there), or rendering raises.
SendOutcomes == {"delivered", "not_sent", "render_error"}
SaveOutcomes == {"saved", "save_raises"}

\* ReminderSettings.get_reminder_template: <<subject, template>> of a reminder number,
\* or the default ones.
get_reminder_template(settings, reminder_number) ==
    <<IF reminder_number \in DOMAIN settings.subjects
      THEN settings.subjects[reminder_number] ELSE <<>>,
      IF reminder_number \in DOMAIN settings.templates
      THEN settings.templates[reminder_number] ELSE <<"invoice_number">>>>

\* The keys of template_vars, the interpolation context of _send_reminder.
template_vars ==
    {"invoice_number", "customer_name", "issue_date", "due_date", "days_overdue",
     "currency", "total", "reminder_number"}

\* A rendering that drops the placeholders it has no value for.
format_raises_never(template) == FALSE

\* template.format(**template_vars) raises KeyError for a placeholder that is not a
\* key of template_vars.
format_raises(template) ==
    \E k \in 1..Len(template) : template[k] \notin template_vars

\* What _send_reminder comes to for a reminder number: when formatting the subject or
\* the message raises, that exception, before any PDF or email; otherwise what the
\* services do.
reminder_outcome(settings, reminder_number, so) ==
    IF \/ format_raises(get_reminder_template(settings, reminder_number)[1])
       \/ format_raises(get_reminder_template(settings, reminder_number)[2])
    THEN "render_error"
    ELSE so

\* _send_reminder: True only when send_email returned True; every exception is caught.
_send_reminder(send_outcome) == send_outcome = "delivered"

ZeroResults(n, d) ==
    [processed |-> n, sent |-> 0, errors |-> 0, skipped |-> 0, disabled |-> d]

\* process_invoice recording and saving the reminder whatever _send_reminder returned.
process_invoice_records_unsent(settings, invoice, t, res, send_outcome, save_outcome) ==
    LET reminder_number == _get_reminder_number(settings, invoice, t) IN
    IF reminder_number # None
    THEN [invoice |-> record_reminder_sent(invoice, t), saved |-> save_outcome = "saved",
          emailed |-> IF _send_reminder(send_outcome) THEN reminder_number ELSE None,
          raised |-> save_outcome # "saved",
          results |-> IF _send_reminder(send_outcome) /\ save_outcome = "saved"
                      THEN [res EXCEPT !.sent = @ + 1]
                      ELSE [res EXCEPT !.errors = @ + 1]]
    ELSE [invoice |-> invoice, saved |-> FALSE, emailed |-> None,
          raised |-> FALSE, results |-> [res EXCEPT !.skipped = @ + 1]]

\* process_invoice counting the reminder as sent before the invoice is saved.
process_invoice_counts_before_save(settings, invoice, t, res, send_outcome, save_outcome) ==
    LET reminder_number == _get_reminder_number(settings, invoice, t) IN
    IF reminder_number # None
    THEN IF _send_reminder(send_outcome)
         THEN IF save_outcome = "saved"
              THEN [invoice |-> record_reminder_sent(invoice, t), saved |-> TRUE,
                    emailed |-> reminder_number, raised |-> FALSE,
                    results |-> [res EXCEPT !.sent = @ + 1]]
              ELSE [invoice |-> record_reminder_sent(invoice, t), saved |-> FALSE,
                    emailed |-> reminder_number, raised |-> TRUE,
                    results |-> [res EXCEPT !.sent = @ + 1, !.errors = @ + 1]]
         ELSE [invoice |-> invoice, saved |-> FALSE, emailed |-> None,
               raised |-> FALSE, results |-> [res EXCEPT !.errors = @ + 1]]
    ELSE [invoice |-> invoice, saved |-> FALSE, emailed |-> None,
          raised |-> FALSE, results |-> [res EXCEPT !.skipped = @ + 1]]

\* One iteration of the loop of process_reminders over `invoice`: the invoice object
\* afterwards, whether it was saved, the reminder number emailed (None: no email)
\* and the counters.
process_invoice(settings, invoice, t, res, send_outcome, save_outcome) ==
    LET reminder_number == _get_reminder_number(settings, invoice, t) IN
    IF reminder_number # None
    THEN IF _send_reminder(send_outcome)
         THEN IF save_outcome = "saved"
              THEN [invoice |-> record_reminder_sent(invoice, t), saved |-> TRUE,
                    emailed |-> reminder_number, raised |-> FALSE,
                    results |-> [res EXCEPT !.sent = @ + 1]]
              ELSE [invoice |-> record_reminder_sent(invoice, t), saved |-> FALSE,
                    emailed |-> reminder_number, raised |-> TRUE,
                    results |-> [res EXCEPT !.errors = @ + 1]]
         ELSE [invoice |-> invoice, saved |-> FALSE, emailed |-> None,
               raised |-> FALSE, results |-> [res EXCEPT !.errors = @ + 1]]
    ELSE [invoice |-> invoice, saved |-> FALSE, emailed |-> None,
          raised |-> FALSE, results |-> [res EXCEPT !.skipped = @ + 1]]

\* The loop left by the exception of an iteration.
remaining_invoices_abort(listed, i, raised) ==
    IF raised THEN [j \in {} |-> listed[j]]
    ELSE [j \in DOMAIN listed \ {i} |-> listed[j]]

\* The loop after an iteration over invoice i: the exception of an iteration is caught
\* inside the loop, so the other listed invoices stay to be processed.
remaining_invoices(listed, i, raised) ==
    [j \in DOMAIN listed \ {i} |-> listed[j]]

\* process_reminders never looking at settings.enabled.
reminders_disabled_never(settings) == FALSE

\* process_reminders returns at once when not settings.enabled.
reminders_disabled(settings) == ~settings.enabled

\* ReminderSettings.update_last_run
update_last_run(settings, t) == [settings EXCEPT !.last_run = t]

\* process_reminders stamping last_run only when the run sent a reminder.
settings_after_run_if_sent(settings, res, t) ==
    IF res.sent > 0 THEN update_last_run(settings, t) ELSE settings

\* The settings process_reminders saves after its loop: last_run is stamped whatever
\* the counters of the run are.
settings_after_run(settings, res, t) == update_last_run(settings, t)

\* The invoices process_reminders asks the store for.
list_overdue(store) == repo_list(store, OVERDUE)

NoLast == [id |-> None, number |-> None, send |-> "", save |-> ""]

\* No process_reminders call is running, or the last operation returned no counters.
NoResults == ZeroResults(None, FALSE)

\* No process_reminders calls running side by side.
NoRuns == [r \in {} |-> NoResults]

\* ------------------------------------------------------------ initial state
SettingsChoices ==
    {[DefaultSettings EXCEPT !.enabled = e, !.reminder_days = rd] :
        e \in BOOLEAN, rd \in ReminderDaysChoices}

NoInvoices == [i \in {} |-> NewInvoice(0, 0)]

\* Invoices created as drafts on day 0; the owner has stored settings or none yet.
Init ==
    /\ now = 0
    /\ invoices \in [InvoiceIds -> {NewInvoice(d, 0) : d \in DueDates}]
    /\ reminder_settings \in {<<>>} \cup {<<s>> : s \in SettingsChoices}
    /\ pc = "idle"
    /\ overdue_invoices = NoInvoices
    /\ results = NoResults
    /\ returned = NoResults
    /\ outbox = [i \in InvoiceIds |-> <<>>]
    /\ last = NoLast
    /\ runs_today = 0
    /\ runs = NoRuns

\* A store of invoices earlier days left, one day before the clock's last: sent on
\* day 0 and due then, found overdue on day 1 and either still waiting for the first
\* reminder, reminded once, or paid.
BatchInvoices ==
    LET overdue == [due_date |-> 0, status |-> OVERDUE, sent_at |-> 0, paid_at |-> None,
                    reminder_sent_at |-> <<>>, updated_at |-> 1]
    IN  {overdue, record_reminder_sent(overdue, 1), mark_as_paid(overdue, 1)}

BatchInit ==
    /\ now = MaxDay - 1
    /\ invoices \in [BatchIds -> BatchInvoices]
    /\ reminder_settings \in {<<s>> : s \in SettingsChoices}
    /\ pc = "idle"
    /\ overdue_invoices = NoInvoices
    /\ results = NoResults
    /\ returned = NoResults
    /\ outbox = [i \in BatchIds |->
                    IF invoices[i].reminder_sent_at = <<>> THEN <<>> ELSE <<1>>]
    /\ last = NoLast
    /\ runs_today = 0
    /\ runs = NoRuns

\* ------------------------------------------------------------ actions
\* A day passes.
Tick ==
    /\ pc = "idle"
    /\ now < MaxDay
    /\ now' = now + 1
    /\ runs_today' = 0
    /\ returned' = NoResults
    /\ UNCHANGED <<invoices, reminder_settings, pc, overdue_invoices, results,
                   outbox, last, runs>>

\* invoice.send() on a stored invoice, saved.
SendInvoice(i) ==
    /\ pc = "idle"
    /\ invoices' = repo_save(invoices, i, send(invoices[i], now))
    /\ returned' = NoResults
    /\ UNCHANGED <<now, reminder_settings, pc, overdue_invoices, results, outbox,
                   last, runs_today, runs>>

\* InvoiceService.mark_as_paid(invoice_id)
MarkAsPaid(i) ==
    /\ pc = "idle"
    /\ invoices' = repo_save(invoices, i, mark_as_paid(invoices[i], now))
    /\ returned' = NoResults
    /\ UNCHANGED <<now, reminder_settings, pc, overdue_invoices, results, outbox,
                   last, runs_today, runs>>

\* invoice.cancel() on a stored invoice, saved.
CancelInvoice(i) ==
    /\ pc = "idle"
    /\ invoices' = repo_save(invoices, i, cancel(invoices[i], now))
    /\ returned' = NoResults
    /\ UNCHANGED <<now, reminder_settings, pc, overdue_invoices, results, outbox,
                   last, runs_today, runs>>

\* InvoiceService.check_overdue_invoices(): the sweep over the SENT invoices; the
\* newly overdue invoices are saved and returned.
CheckOverdueInvoices ==
    /\ pc = "idle"
    /\ invoices' = [i \in DOMAIN invoices |->
                       IF i \in newly_overdue(invoices, now)
                       THEN check_overdue(invoices[i], now)
                       ELSE invoices[i]]
    /\ returned' = [newly_overdue |-> newly_overdue(invoices, now)]
    /\ UNCHANGED <<now, reminder_settings, pc, overdue_invoices, results, outbox,
                   last, runs_today, runs>>

\* process_reminders up to its loop: load (or create) the settings, return at once
\* when reminders are disabled, else list the OVERDUE invoices.
StartRun ==
    /\ pc = "idle"
    /\ runs_today < MaxRunsPerDay
    /\ runs_today' = runs_today + 1
    /\ LET settings == get_settings(reminder_settings) IN
       /\ reminder_settings' = <<settings>>
       /\ IF reminders_disabled(settings)
          THEN /\ returned' = ZeroResults(0, TRUE)
               /\ pc' = "idle"
               /\ UNCHANGED <<overdue_invoices, results>>
          ELSE /\ overdue_invoices' = [i \in list_overdue(invoices) |-> invoices[i]]
               /\ results' = ZeroResults(Cardinality(list_overdue(invoices)), FALSE)
               /\ returned' = NoResults
               /\ pc' = "loop"
    /\ last' = NoLast
    /\ UNCHANGED <<now, invoices, outbox, runs>>

\* One iteration of the loop, for a listed invoice (the list order is the store's),
\* with what the notifier and the store do in it.
ProcessInvoiceWith(so, sv) ==
    /\ pc = "loop"
    /\ \E i \in DOMAIN overdue_invoices :
         LET settings == get_settings(reminder_settings)
             number == _get_reminder_number(settings, overdue_invoices[i], now)
             outcome == IF number # None THEN reminder_outcome(settings, number, so) ELSE so
             r == process_invoice(settings, overdue_invoices[i], now, results, outcome, sv)
         IN  /\ invoices' = IF r.saved THEN repo_save(invoices, i, r.invoice) ELSE invoices
             /\ outbox' = IF r.emailed # None
                          THEN [outbox EXCEPT ![i] = Append(@, r.emailed)]
                          ELSE outbox
             /\ results' = r.results
             /\ overdue_invoices' = remaining_invoices(overdue_invoices, i, r.raised)
             /\ last' = [id |-> i, number |-> number,
                         send |-> IF number # None THEN outcome ELSE "",
                         save |-> IF r.emailed # None THEN sv ELSE ""]
    /\ UNCHANGED <<now, reminder_settings, pc, returned, runs_today, runs>>

ProcessInvoice ==
    \E so \in SendOutcomes, sv \in SaveOutcomes : ProcessInvoiceWith(so, sv)

\* An iteration in which the email is delivered and the invoice saved.
ProcessInvoiceOk == ProcessInvoiceWith("delivered", "saved")

\* process_reminders after its loop: update_last_run, save the settings, return.
FinishRun ==
    /\ pc = "loop"
    /\ DOMAIN overdue_invoices = {}
    /\ reminder_settings' =
          <<settings_after_run(get_settings(reminder_settings), results, now)>>
    /\ pc' = "idle"
    /\ returned' = results
    /\ results' = NoResults
    /\ last' = NoLast
    /\ UNCHANGED <<now, invoices, overdue_invoices, outbox, runs_today, runs>>

Next ==
    \/ Tick
    \/ \E i \in DOMAIN invoices : SendInvoice(i)
    \/ \E i \in DOMAIN invoices : MarkAsPaid(i)
    \/ \E i \in DOMAIN invoices : CancelInvoice(i)
    \/ CheckOverdueInvoices
    \/ StartRun
    \/ ProcessInvoice
    \/ FinishRun

Spec == Init /\ [][Next]_vars

\* process_reminders runs over a store of several invoices, as days pass.
BatchNext ==
    \/ Tick
    \/ StartRun
    \/ ProcessInvoice
    \/ FinishRun

BatchSpec == BatchInit /\ [][BatchNext]_vars

\* ------------------------------------------------------------ the reminder policy alone
\* Reminders an invoice of the policy specification has recorded, at most.
MaxReminders == 3

RECURSIVE Reminded(_, _, _)
\* `invoice` after k reminders recorded on day t.
Reminded(invoice, k, t) ==
    IF k = 0 THEN invoice ELSE record_reminder_sent(Reminded(invoice, k - 1, t), t)

\* Invoices due on day 0: a draft, sent, found overdue on day 1 and reminded up to
\* MaxReminders times, and those paid or cancelled afterwards.
PolicyInvoices ==
    LET draft == NewInvoice(0, 0)
        sent == send(draft, 0)
        overdue == {Reminded(check_overdue(sent, 1), k, 1) : k \in 0..MaxReminders}
    IN  {draft, sent} \cup overdue
          \cup {mark_as_paid(o, 1) : o \in overdue} \cup {cancel(o, 1) : o \in overdue}

PolicySettings ==
    {<<>>} \cup {<<[DefaultSettings EXCEPT !.reminder_days = rd]>> :
                    rd \in ReminderDaysChoices \cup {<<>>, <<2, 5, 5>>}}

PolicyInit ==
    /\ now \in 0..MaxPolicyDay
    /\ invoices \in [InvoiceIds -> PolicyInvoices]
    /\ reminder_settings \in PolicySettings
    /\ pc = "idle"
    /\ overdue_invoices = NoInvoices
    /\ results = NoResults
    /\ returned = NoResults
    /\ outbox = [i \in InvoiceIds |-> <<>>]
    /\ last = NoLast
    /\ runs_today = 0
    /\ runs = NoRuns

\* _get_reminder_number(settings, invoice) called on a stored invoice.
GetReminderNumber(i) ==
    /\ last = NoLast
    /\ last' = [id |-> i, send |-> "", save |-> "",
                number |-> _get_reminder_number(get_settings(reminder_settings),
                                                invoices[i], now)]
    /\ UNCHANGED <<now, invoices, reminder_settings, pc, overdue_invoices, results,
                   returned, outbox, runs_today, runs>>

PolicyNext == \E i \in DOMAIN invoices : GetReminderNumber(i)

PolicySpec == PolicyInit /\ [][PolicyNext]_vars

\* ------------------------------------------------------------ runs that keep coming
\* The owner has enabled reminders with a configured schedule.
LiveInit ==
    /\ Init
    /\ reminder_settings # <<>>
    /\ reminder_settings[1].enabled

\* The invoice is sent and swept, stays unpaid and uncancelled, the notifier and the
\* store succeed.
LiveNext ==
    \/ Tick
    \/ \E i \in DOMAIN invoices : SendInvoice(i)
    \/ CheckOverdueInvoices
    \/ StartRun
    \/ ProcessInvoiceOk
    \/ FinishRun

\* Days keep passing and the scheduler keeps calling process_reminders, each call
\* running to its end.
LiveSpec ==
    /\ LiveInit
    /\ [][LiveNext]_vars
    /\ WF_vars(Tick)
    /\ WF_vars(StartRun)
    /\ WF_vars(ProcessInvoiceOk)
    /\ WF_vars(FinishRun)

\* ------------------------------------------------------------ concurrent processing
\* The calls of process_reminders that run at the same time in the race specification.
RunIds == {1, 2}

\* The loop body of process_reminders for one listed invoice, taken step by step:
\* "decide" (lines 131-134), "send" (138), "record" (142), "persist" (143-145). It
\* works on the invoice object the list returned.
NewWorker(invoice) ==
    [invoice |-> invoice, pc |-> "decide", number |-> None, send |-> "", save |-> ""]

NoWorkers == [i \in {} |-> NewWorker(NewInvoice(0, 0))]

\* A call of process_reminders that has not started.
IdleRun ==
    [pc |-> "idle", settings |-> DefaultSettings, overdue_invoices |-> NoInvoices,
     workers |-> NoWorkers, results |-> NoResults]

\* The decision taken on the invoice as the store holds it at the time of the decision.
decided_number_fresh(settings, listed, stored, t) ==
    _get_reminder_number(settings, stored, t)

\* The decision of an iteration: _get_reminder_number on the listed invoice object; the
\* store is not read again.
decided_number(settings, listed, stored, t) ==
    _get_reminder_number(settings, listed, t)

\* A save that writes the whole listed batch back along with the invoice.
persist_listed(store, listed, i, invoice) ==
    [j \in DOMAIN store |->
        IF j = i THEN invoice ELSE IF j \in DOMAIN listed THEN listed[j] ELSE store[j]]

\* invoice_repository.save(invoice) in the loop: only the invoice of the iteration.
persist(store, listed, i, invoice) == repo_save(store, i, invoice)

\* process_reminders up to its loop, in call r.
BeginRun(r) ==
    /\ runs[r].pc = "idle"
    /\ LET settings == get_settings(reminder_settings)
           listed == list_overdue(invoices)
       IN  /\ reminder_settings' = <<settings>>
           /\ runs' = [runs EXCEPT ![r] =
                 IF reminders_disabled(settings)
                 THEN [@ EXCEPT !.pc = "done", !.settings = settings,
                                !.results = ZeroResults(0, TRUE)]
                 ELSE [pc |-> "loop", settings |-> settings,
                       overdue_invoices |-> [i \in listed |-> invoices[i]],
                       workers |-> [i \in listed |-> NewWorker(invoices[i])],
                       results |-> ZeroResults(Cardinality(listed), FALSE)]]
    /\ UNCHANGED <<now, invoices, pc, overdue_invoices, results, returned, outbox,
                   last, runs_today>>

\* days_overdue and _get_reminder_number for invoice i in call r; no reminder due
\* counts the invoice as skipped.
Decide(r, i) ==
    /\ runs[r].pc = "loop"
    /\ i \in DOMAIN runs[r].workers
    /\ runs[r].workers[i].pc = "decide"
    /\ LET w == runs[r].workers[i]
           reminder_number == decided_number(runs[r].settings, w.invoice, invoices[i], now)
       IN  runs' = [runs EXCEPT
                       ![r].workers[i] =
                           [w EXCEPT !.number = reminder_number,
                                     !.pc = IF reminder_number # None THEN "send" ELSE "done"],
                       ![r].results =
                           IF reminder_number # None THEN @ ELSE [@ EXCEPT !.skipped = @ + 1]]
    /\ UNCHANGED <<now, invoices, reminder_settings, pc, overdue_invoices, results,
                   returned, outbox, last, runs_today>>

\* _send_reminder for invoice i in call r: the email goes out, or the failure is
\* counted as an error.
Deliver(r, i) ==
    /\ runs[r].pc = "loop"
    /\ i \in DOMAIN runs[r].workers
    /\ runs[r].workers[i].pc = "send"
    /\ \E choice \in SendOutcomes :
         LET w == runs[r].workers[i]
             so == reminder_outcome(runs[r].settings, w.number, choice)
         IN
         /\ runs' = [runs EXCEPT
                        ![r].workers[i] =
                            [w EXCEPT !.send = so,
                                      !.pc = IF _send_reminder(so) THEN "record" ELSE "done"],
                        ![r].results =
                            IF _send_reminder(so) THEN @ ELSE [@ EXCEPT !.errors = @ + 1]]
         /\ outbox' = IF _send_reminder(so)
                      THEN [outbox EXCEPT ![i] = Append(@, w.number)]
                      ELSE outbox
    /\ UNCHANGED <<now, invoices, reminder_settings, pc, overdue_invoices, results,
                   returned, last, runs_today>>

\* invoice.record_reminder_sent() on the listed object of call r.
Record(r, i) ==
    /\ runs[r].pc = "loop"
    /\ i \in DOMAIN runs[r].workers
    /\ runs[r].workers[i].pc = "record"
    /\ runs' = [runs EXCEPT
                   ![r].workers[i] =
                       [@ EXCEPT !.invoice = record_reminder_sent(@, now), !.pc = "persist"]]
    /\ UNCHANGED <<now, invoices, reminder_settings, pc, overdue_invoices, results,
                   returned, outbox, last, runs_today>>

\* invoice_repository.save(invoice) and results['sent'] += 1 in call r, or the
\* exception of the save counted as an error.
Persist(r, i) ==
    /\ runs[r].pc = "loop"
    /\ i \in DOMAIN runs[r].workers
    /\ runs[r].workers[i].pc = "persist"
    /\ \E sv \in SaveOutcomes :
         LET w == runs[r].workers[i] IN
         /\ runs' = [runs EXCEPT
                        ![r].workers[i] = [w EXCEPT !.save = sv, !.pc = "done"],
                        ![r].results = IF sv = "saved" THEN [@ EXCEPT !.sent = @ + 1]
                                       ELSE [@ EXCEPT !.errors = @ + 1]]
         /\ invoices' = IF sv = "saved"
                        THEN persist(invoices, runs[r].overdue_invoices, i, w.invoice)
                        ELSE invoices
    /\ UNCHANGED <<now, reminder_settings, pc, overdue_invoices, results, returned,
                   outbox, last, runs_today>>

\* process_reminders after its loop, in call r: the settings object of the call is
\* stamped and saved.
EndRun(r) ==
    /\ runs[r].pc = "loop"
    /\ \A i \in DOMAIN runs[r].workers : runs[r].workers[i].pc = "done"
    /\ reminder_settings' =
          <<settings_after_run(runs[r].settings, runs[r].results, now)>>
    /\ runs' = [runs EXCEPT ![r].pc = "done"]
    /\ UNCHANGED <<now, invoices, pc, overdue_invoices, results, returned, outbox,
                   last, runs_today>>

ConcurrentNext ==
    \/ \E r \in DOMAIN runs : BeginRun(r)
    \/ \E r \in DOMAIN runs, i \in DOMAIN invoices : Decide(r, i)
    \/ \E r \in DOMAIN runs, i \in DOMAIN invoices : Deliver(r, i)
    \/ \E r \in DOMAIN runs, i \in DOMAIN invoices : Record(r, i)
    \/ \E r \in DOMAIN runs, i \in DOMAIN invoices : Persist(r, i)
    \/ \E r \in DOMAIN runs : EndRun(r)

\* Two calls of process_reminders at the same time over a store of one invoice.
RaceInit ==
    /\ now = MaxDay - 1
    /\ invoices \in [InvoiceIds -> BatchInvoices]
    /\ reminder_settings \in {<<s>> : s \in SettingsChoices}
    /\ pc = "idle"
    /\ overdue_invoices = NoInvoices
    /\ results = NoResults
    /\ returned = NoResults
    /\ outbox = [i \in InvoiceIds |->
                    IF invoices[i].reminder_sent_at = <<>> THEN <<>> ELSE <<1>>]
    /\ last = NoLast
    /\ runs_today = 0
    /\ runs = [r \in RunIds |-> IdleRun]

RaceSpec == RaceInit /\ [][ConcurrentNext]_vars

\* One call of process_reminders whose iterations over the listed invoices run in
\* parallel.
ParallelInit ==
    /\ now = MaxDay - 1
    /\ invoices \in [BatchIds -> BatchInvoices]
    /\ reminder_settings \in {<<s>> : s \in SettingsChoices}
    /\ pc = "idle"
    /\ overdue_invoices = NoInvoices
    /\ results = NoResults
    /\ returned = NoResults
    /\ outbox = [i \in BatchIds |->
                    IF invoices[i].reminder_sent_at = <<>> THEN <<>> ELSE <<1>>]
    /\ last = NoLast
    /\ runs_today = 0
    /\ runs = [r \in {1} |-> IdleRun]

ParallelSpec == ParallelInit /\ [][ConcurrentNext]_vars

\* ------------------------------------------------------------ amounts
\* Money is counted in hundredths of a cent (10.00 is 100000) and percentages in
\* percent; with the amounts and rates used below every percentage of an amount is a
\* whole number of hundredths of a cent, so the divisions are exact. The rounding of
\* Python floats is left out.
\* Items of an invoice, at most, and items of the list an update replaces them with.
MaxItems == 2
MaxUpdateItems == 1

\* Invoice: the defaults of the financial fields and of the items.
FinancialDefaults ==
    [subtotal |-> 0, vat_rate |-> 0, vat_amount |-> 0, discount_percentage |-> 0,
     discount_amount |-> 0, total |-> 0, items |-> <<>>]

\* Invoice(**invoice_data): a new invoice with the fields the caller passes.
Invoice(invoice_data, t) == invoice_data @@ FinancialDefaults @@ NewInvoice(0, t)

\* InvoiceItem(quantity, unit_price): __post_init__ calls calculate_total.
InvoiceItem(quantity, unit_price) ==
    [quantity |-> quantity, unit_price |-> unit_price, total |-> quantity * unit_price]

\* The item dicts a client sends: 2 x 10.00, the same with a total of 0.01, 1 x 5.00
\* with a total of 5.005, 0 x 5.00 and 1 x -5.00.
ItemDataChoices ==
    {[quantity |-> 2, unit_price |-> 100000, total |-> 200000],
     [quantity |-> 2, unit_price |-> 100000, total |-> 100],
     [quantity |-> 1, unit_price |-> 50000, total |-> 50050],
     [quantity |-> 0, unit_price |-> 50000, total |-> 0],
     [quantity |-> 1, unit_price |-> -50000, total |-> -50000]}

\* The lists of at most n item dicts.
ItemLists(n) == UNION {[1..k -> ItemDataChoices] : k \in 0..n}

\* The invoice_data a client passes to create_invoice.
InvoiceDataChoices ==
    {<<>>,
     [vat_rate |-> 20],
     [discount_percentage |-> 10],
     [discount_percentage |-> 10, vat_rate |-> 20],
     [subtotal |-> 10000, total |-> 10000],
     [discount_amount |-> 10000]}

\* The data a client passes to update_invoice, apart from lists of new items.
UpdateDataChoices ==
    {[discount_percentage |-> 0],
     [discount_percentage |-> 10],
     [vat_rate |-> 20],
     [discount_percentage |-> 0, items |-> <<>>],
     [subtotal |-> 10000, total |-> 10000, reference |-> 7]}

RECURSIVE sum_of_totals(_)
\* sum(item.total for item in items)
sum_of_totals(items) ==
    IF items = <<>> THEN 0 ELSE Head(items).total + sum_of_totals(Tail(items))

\* calculate_totals taxing the subtotal before the discount.
calculate_totals_vat_on_subtotal(invoice, t) ==
    LET subtotal == sum_of_totals(invoice.items)
        discount_amount == IF invoice.discount_percentage > 0
                           THEN (subtotal * invoice.discount_percentage) \div 100
                           ELSE invoice.discount_amount
        vat_amount == (subtotal * invoice.vat_rate) \div 100
    IN  [invoice EXCEPT !.subtotal = subtotal, !.discount_amount = discount_amount,
                        !.vat_amount = vat_amount,
                        !.total = (subtotal - discount_amount) + vat_amount,
                        !.updated_at = t]

\* calculate_totals adding the discount to the discount amount already held.
calculate_totals_compounding(invoice, t) ==
    LET subtotal == sum_of_totals(invoice.items)
        discount_amount == IF invoice.discount_percentage > 0
                           THEN invoice.discount_amount
                                   + (subtotal * invoice.discount_percentage) \div 100
                           ELSE invoice.discount_amount
        taxable_amount == subtotal - discount_amount
        vat_amount == (taxable_amount * invoice.vat_rate) \div 100
    IN  [invoice EXCEPT !.subtotal = subtotal, !.discount_amount = discount_amount,
                        !.vat_amount = vat_amount, !.total = taxable_amount + vat_amount,
                        !.updated_at = t]

\* Invoice.calculate_totals
calculate_totals(invoice, t) ==
    LET subtotal == sum_of_totals(invoice.items)
        discount_amount == IF invoice.discount_percentage > 0
                           THEN (subtotal * invoice.discount_percentage) \div 100
                           ELSE invoice.discount_amount
        taxable_amount == subtotal - discount_amount
        vat_amount == (taxable_amount * invoice.vat_rate) \div 100
    IN  [invoice EXCEPT !.subtotal = subtotal, !.discount_amount = discount_amount,
                        !.vat_amount = vat_amount, !.total = taxable_amount + vat_amount,
                        !.updated_at = t]

\* Invoice.add_item
add_item(invoice, item, t) ==
    calculate_totals([invoice EXCEPT !.items = Append(@, item)], t)

\* Invoice.remove_item, for the item at position k: without such an item the invoice
\* stays as it is.
remove_item(invoice, k, t) ==
    IF k \in 1..Len(invoice.items)
    THEN calculate_totals(
             [invoice EXCEPT !.items = [j \in 1..(Len(@) - 1) |->
                                           IF j < k THEN @[j] ELSE @[j + 1]]], t)
    ELSE invoice

RECURSIVE add_items(_, _, _)
\* The loop of the service over the item dicts: InvoiceItem(quantity, unit_price) and
\* invoice.add_item for each.
add_items(invoice, items_data, t) ==
    IF items_data = <<>> THEN invoice
    ELSE add_items(add_item(invoice,
                            InvoiceItem(Head(items_data).quantity,
                                        Head(items_data).unit_price), t),
                   Tail(items_data), t)

\* InvoiceService.create_invoice: the invoice it saves.
create_invoice(items_data, invoice_data, t) ==
    calculate_totals(add_items(Invoice(invoice_data, t), items_data, t), t)

\* The setattr loop of update_invoice: every key of data but 'items' that is an
\* attribute of the invoice.
set_fields(invoice, data) ==
    [k \in DOMAIN invoice |->
        IF k \in DOMAIN data \ {"items"} THEN data[k] ELSE invoice[k]]

\* InvoiceService.update_invoice: the invoice it saves.
update_invoice(invoice, data, t) ==
    LET updated == set_fields(invoice, data) IN
    calculate_totals(
        IF "items" \in DOMAIN data
        THEN add_items([updated EXCEPT !.items = <<>>], data.items, t)
        ELSE updated, t)

\* InvoiceRepository.create_invoice: the financial fields of the row it creates.
repository_create_invoice(amount, vat_rate, discount) ==
    LET subtotal == amount
        vat_amount == ((subtotal - discount) * vat_rate) \div 100
    IN  [subtotal |-> subtotal, discount |-> discount, vat_rate |-> vat_rate,
         vat_amount |-> vat_amount, total |-> subtotal - discount + vat_amount]

\* crud create_invoice: the row and the item rows it stores, from an InvoiceCreate.
crud_create_invoice(invoice) ==
    [subtotal |-> invoice.subtotal, tax |-> invoice.tax, total |-> invoice.total,
     items |-> [k \in 1..Len(invoice.items) |->
                   [quantity |-> invoice.items[k].quantity,
                    unit_price |-> invoice.items[k].unit_price,
                    total |-> invoice.items[k].total]]]

\* The InvoiceCreate requests of a client: at most one item, and a subtotal and total
\* that are the item's or 1.00.
InvoiceCreateChoices ==
    UNION {{[subtotal |-> st, tax |-> 0, total |-> st, items |-> items] :
               st \in {sum_of_totals([k \in 1..Len(items) |->
                                        InvoiceItem(items[k].quantity,
                                                    items[k].unit_price)]),
                       10000}} :
           items \in ItemLists(1)}

\* The from_dict of a model class starts with super().from_dict(cls, data): super()
\* has bound the class already, so BaseModel.from_dict gets one argument too many and
\* the call raises TypeError.
TypeError == "TypeError"
super_from_dict(data) == [raised |-> TypeError]

\* InvoiceItem.from_dict: after the call of super().from_dict, the total of the dict
\* is kept unless it is 0 or more than 0.01 away from quantity * unit_price.
item_from_dict(data) ==
    LET base == super_from_dict(data)
        instance == [quantity |-> data.quantity, unit_price |-> data.unit_price,
                     total |-> data.total]
        difference == instance.total - instance.quantity * instance.unit_price
    IN  IF "raised" \in DOMAIN base THEN base
        ELSE IF instance.total = 0 \/ difference > 100 \/ difference < -100
        THEN InvoiceItem(instance.quantity, instance.unit_price)
        ELSE instance

BillingInit ==
    /\ now = 0
    /\ invoices = NoInvoices
    /\ reminder_settings = <<>>
    /\ pc = "idle"
    /\ overdue_invoices = NoInvoices
    /\ results = NoResults
    /\ returned = NoResults
    /\ outbox = [i \in InvoiceIds |-> <<>>]
    /\ last = NoLast
    /\ runs_today = 0
    /\ runs = NoRuns

\* InvoiceService.create_invoice for an existing customer.
CreateInvoice ==
    /\ \E i \in InvoiceIds \ DOMAIN invoices :
       \E items_data \in ItemLists(MaxItems), invoice_data \in InvoiceDataChoices :
          invoices' = (i :> create_invoice(items_data, invoice_data, now)) @@ invoices
    /\ returned' = NoResults
    /\ UNCHANGED <<now, reminder_settings, pc, overdue_invoices, results, outbox,
                   last, runs_today, runs>>

\* InvoiceService.update_invoice of a stored draft.
UpdateInvoice(i) ==
    /\ \E data \in UpdateDataChoices \cup {[items |-> l] : l \in ItemLists(MaxUpdateItems)} :
          invoices' = repo_save(invoices, i, update_invoice(invoices[i], data, now))
    /\ returned' = NoResults
    /\ UNCHANGED <<now, reminder_settings, pc, overdue_invoices, results, outbox,
                   last, runs_today, runs>>

\* invoice.add_item(InvoiceItem(...)) on a stored invoice, saved.
AddItem(i) ==
    /\ Len(invoices[i].items) < MaxItems
    /\ \E d \in ItemDataChoices :
          invoices' = repo_save(invoices, i,
                                add_item(invoices[i],
                                         InvoiceItem(d.quantity, d.unit_price), now))
    /\ returned' = NoResults
    /\ UNCHANGED <<now, reminder_settings, pc, overdue_invoices, results, outbox,
                   last, runs_today, runs>>

\* invoice.remove_item(item_id) on a stored invoice, saved.
RemoveItem(i) ==
    /\ \E k \in 1..(MaxItems + 1) :
          invoices' = repo_save(invoices, i, remove_item(invoices[i], k, now))
    /\ returned' = NoResults
    /\ UNCHANGED <<now, reminder_settings, pc, overdue_invoices, results, outbox,
                   last, runs_today, runs>>

\* invoice.calculate_totals() on a stored invoice, saved.
CalculateTotals(i) ==
    /\ invoices' = repo_save(invoices, i, calculate_totals(invoices[i], now))
    /\ returned' = NoResults
    /\ UNCHANGED <<now, reminder_settings, pc, overdue_invoices, results, outbox,
                   last, runs_today, runs>>

\* InvoiceRepository.create_invoice(amount, vat_rate, discount): the row is returned.
RepositoryCreateInvoice ==
    /\ \E amount \in {250000}, vat_rate \in {0, 20}, discount \in {0, 25000} :
          returned' = repository_create_invoice(amount, vat_rate, discount)
    /\ UNCHANGED <<now, invoices, reminder_settings, pc, overdue_invoices, results,
                   outbox, last, runs_today, runs>>

\* crud create_invoice(db, invoice): the stored row is returned.
CrudCreateInvoice ==
    /\ \E invoice \in InvoiceCreateChoices : returned' = crud_create_invoice(invoice)
    /\ UNCHANGED <<now, invoices, reminder_settings, pc, overdue_invoices, results,
                   outbox, last, runs_today, runs>>

\* InvoiceItem.from_dict(data): the item is returned.
InvoiceItemFromDict ==
    /\ \E data \in ItemDataChoices : returned' = item_from_dict(data)
    /\ UNCHANGED <<now, invoices, reminder_settings, pc, overdue_invoices, results,
                   outbox, last, runs_today, runs>>

BillingNext ==
    \/ CreateInvoice
    \/ \E i \in DOMAIN invoices : UpdateInvoice(i)
    \/ \E i \in DOMAIN invoices : AddItem(i)
    \/ \E i \in DOMAIN invoices : RemoveItem(i)
    \/ \E i \in DOMAIN invoices : CalculateTotals(i)
    \/ RepositoryCreateInvoice
    \/ CrudCreateInvoice
    \/ InvoiceItemFromDict

BillingSpec == BillingInit /\ [][BillingNext]_vars

\* ------------------------------------------------------------ transitions
\* The methods of Invoice called on a stored invoice in whatever status it has, as
\* days pass. The invoice carries its items and totals.
\* Reminders recorded by direct calls of record_reminder_sent, at most.
MaxRecorded == 2

\* An invoice of 2 x 10.00 with 20% VAT created on day 0 and due on day d.
BilledInvoice(d) ==
    create_invoice(<<[quantity |-> 2, unit_price |-> 100000, total |-> 200000]>>,
                   [vat_rate |-> 20, due_date |-> d], 0)

TransitionInit ==
    /\ now = 0
    /\ invoices \in [InvoiceIds -> {BilledInvoice(d) : d \in DueDates}]
    /\ reminder_settings = <<>>
    /\ pc = "idle"
    /\ overdue_invoices = NoInvoices
    /\ results = NoResults
    /\ returned = NoResults
    /\ outbox = [i \in InvoiceIds |-> <<>>]
    /\ last = NoLast
    /\ runs_today = 0
    /\ runs = NoRuns

\* invoice.check_overdue() on a stored invoice, saved; its boolean is returned.
CheckOverdue(i) ==
    /\ pc = "idle"
    /\ invoices' = repo_save(invoices, i, check_overdue(invoices[i], now))
    /\ returned' = [check_overdue |-> is_newly_overdue(invoices[i], now)]
    /\ UNCHANGED <<now, reminder_settings, pc, overdue_invoices, results, outbox,
                   last, runs_today, runs>>

\* invoice.record_reminder_sent() on a stored invoice, saved.
RecordReminderSent(i) ==
    /\ pc = "idle"
    /\ Len(invoices[i].reminder_sent_at) < MaxRecorded
    /\ invoices' = repo_save(invoices, i, record_reminder_sent(invoices[i], now))
    /\ returned' = NoResults
    /\ UNCHANGED <<now, reminder_settings, pc, overdue_invoices, results, outbox,
                   last, runs_today, runs>>

TransitionNext ==
    \/ Tick
    \/ \E i \in DOMAIN invoices : SendInvoice(i)
    \/ \E i \in DOMAIN invoices : MarkAsPaid(i)
    \/ \E i \in DOMAIN invoices : CancelInvoice(i)
    \/ \E i \in DOMAIN invoices : CheckOverdue(i)
    \/ CheckOverdueInvoices
    \/ \E i \in DOMAIN invoices : RecordReminderSent(i)

TransitionSpec == TransitionInit /\ [][TransitionNext]_vars

\* ------------------------------------------------------------ InvoiceRepository
\* The status operations of InvoiceRepository and the update of the crud module, on
\* the invoice rows of the database.
\* Their status enum has REMINDER_SENT besides the statuses of the Invoice class.
REMINDER_SENT == "reminder_sent"
RowStatus == InvoiceStatus \cup {REMINDER_SENT}

\* The rows the operations are called for: one per status, sent on day 0 unless a
\* draft, with one reminder counted or none.
Rows ==
    UNION {{[status |-> st, sent_date |-> IF st = DRAFT THEN None ELSE 0,
             payment_date |-> IF st = PAID THEN 0 ELSE None,
             last_reminder_date |-> IF n = 0 THEN None ELSE 0,
             reminder_count |-> n, updated_at |-> 0] :
               n \in IF st \in {DRAFT, SENT} THEN {0} ELSE {0, 1}} :
           st \in RowStatus}

\* The date argument of an operation: None, or a day up to today.
DateArguments == {None} \cup 0..now

\* InvoiceRepository.mark_as_sent: <<the updated row>>, or <<>> for None.
repository_mark_as_sent(invoice, sent_date, t) ==
    IF invoice.status = DRAFT
    THEN <<[invoice EXCEPT !.status = SENT,
                           !.sent_date = IF sent_date # None THEN sent_date ELSE t,
                           !.updated_at = t]>>
    ELSE <<>>

\* InvoiceRepository.mark_as_paid
repository_mark_as_paid(invoice, payment_date, t) ==
    IF invoice.status \in {SENT, REMINDER_SENT}
    THEN <<[invoice EXCEPT !.status = PAID,
                           !.payment_date = IF payment_date # None THEN payment_date ELSE t,
                           !.updated_at = t]>>
    ELSE <<>>

\* InvoiceRepository.record_reminder_sent
repository_record_reminder_sent(invoice, t) ==
    IF invoice.status \in {SENT, REMINDER_SENT}
    THEN <<[invoice EXCEPT !.status = REMINDER_SENT, !.last_reminder_date = t,
                           !.reminder_count = @ + 1, !.updated_at = t]>>
    ELSE <<>>

\* An unset Optional field of an InvoiceUpdate is <<>>, a set one <<value>>.
\* crud update_invoice: the row after the setattr loop over the fields of the
\* InvoiceUpdate that are set and not None.
crud_update_invoice(db_invoice, update_data) ==
    [field \in DOMAIN db_invoice |->
        IF field \in DOMAIN update_data /\ update_data[field] # <<>>
        THEN update_data[field][1]
        ELSE db_invoice[field]]

\* The invoice rows crud update_invoice is called for, and the InvoiceUpdate requests
\* of a client (model_dump(exclude_unset=True)).
InvoiceDBChoices ==
    {[status |-> st, subtotal |-> 200000, tax |-> 0, total |-> 200000, notes |-> 0,
      due_date |-> 1] : st \in {DRAFT, SENT}}
InvoiceUpdateChoices ==
    {[notes |-> <<1>>],
     [status |-> <<>>, due_date |-> <<2>>],
     [status |-> <<PAID>>],
     [status |-> <<DRAFT>>, notes |-> <<>>]}

RepositoryInit ==
    /\ now = 0
    /\ invoices = NoInvoices
    /\ reminder_settings = <<>>
    /\ pc = "idle"
    /\ overdue_invoices = NoInvoices
    /\ results = NoResults
    /\ returned = NoResults
    /\ outbox = [i \in InvoiceIds |-> <<>>]
    /\ last = NoLast
    /\ runs_today = 0
    /\ runs = NoRuns

\* mark_as_sent(invoice_id, sent_date): the row it was called for and what it returned.
RepositoryMarkAsSent ==
    /\ \E invoice \in Rows, sent_date \in DateArguments :
          returned' = [operation |-> "mark_as_sent", invoice |-> invoice,
                       result |-> repository_mark_as_sent(invoice, sent_date, now)]
    /\ UNCHANGED <<now, invoices, reminder_settings, pc, overdue_invoices, results,
                   outbox, last, runs_today, runs>>

\* mark_as_paid(invoice_id, payment_date)
RepositoryMarkAsPaid ==
    /\ \E invoice \in Rows, payment_date \in DateArguments :
          returned' = [operation |-> "mark_as_paid", invoice |-> invoice,
                       result |-> repository_mark_as_paid(invoice, payment_date, now)]
    /\ UNCHANGED <<now, invoices, reminder_settings, pc, overdue_invoices, results,
                   outbox, last, runs_today, runs>>

\* record_reminder_sent(invoice_id)
RepositoryRecordReminderSent ==
    /\ \E invoice \in Rows :
          returned' = [operation |-> "record_reminder_sent", invoice |-> invoice,
                       result |-> repository_record_reminder_sent(invoice, now)]
    /\ UNCHANGED <<now, invoices, reminder_settings, pc, overdue_invoices, results,
                   outbox, last, runs_today, runs>>

\* crud update_invoice(db, invoice_id, invoice_update): the row it was called for and
\* the row it returns.
CrudUpdateInvoice ==
    /\ \E db_invoice \in InvoiceDBChoices, update_data \in InvoiceUpdateChoices :
          returned' = [operation |-> "update_invoice", invoice |-> db_invoice,
                       result |-> crud_update_invoice(db_invoice, update_data)]
    /\ UNCHANGED <<now, invoices, reminder_settings, pc, overdue_invoices, results,
                   outbox, last, runs_today, runs>>

RepositoryNext ==
    \/ Tick
    \/ RepositoryMarkAsSent
    \/ RepositoryMarkAsPaid
    \/ RepositoryRecordReminderSent
    \/ CrudUpdateInvoice

RepositorySpec == RepositoryInit /\ [][RepositoryNext]_vars

\* ------------------------------------------------------------ reminder settings
\* The owner changes the reminder settings between runs of process_reminders.
\* The dictionaries a client passes to update_settings and to from_dict: schedules
\* (descending, empty, repeating, ascending), the switch, a message template and a
\* subject with a placeholder that template_vars has no value for, the defaults again,
\* and a key that is no attribute of the settings.
SettingsDataChoices ==
    {[reminder_days |-> <<2, 1>>],
     [reminder_days |-> <<>>],
     [reminder_days |-> <<1, 1>>],
     [reminder_days |-> <<1, 2>>],
     [enabled |-> FALSE],
     [enabled |-> TRUE],
     [templates |-> (1 :> <<"customer_name", "customer_phone">>)],
     [subjects |-> (1 :> <<"invoice_no">>)],
     [subjects |-> DefaultSubjects, templates |-> DefaultTemplates],
     [timezone |-> 0]}

\* The setattr loop of update_settings: every key of data that is an attribute of the
\* settings.
update_settings(settings, data) ==
    [k \in DOMAIN settings |-> IF k \in DOMAIN data THEN data[k] ELSE settings[k]]

\* ReminderSettings.from_dict: after the call of super().from_dict, enabled and
\* reminder_days are taken from the dict as they are.
settings_from_dict(data) ==
    LET base == super_from_dict(data) IN
    IF "raised" \in DOMAIN base THEN base
    ELSE [DefaultSettings EXCEPT
             !.enabled = IF "enabled" \in DOMAIN data THEN data.enabled ELSE TRUE,
             !.reminder_days = IF "reminder_days" \in DOMAIN data
                               THEN data.reminder_days ELSE @]

\* One invoice that earlier days left overdue, and no settings stored yet.
SettingsInit ==
    /\ now = MaxDay - 1
    /\ invoices \in [InvoiceIds -> BatchInvoices]
    /\ reminder_settings = <<>>
    /\ pc = "idle"
    /\ overdue_invoices = NoInvoices
    /\ results = NoResults
    /\ returned = NoResults
    /\ outbox = [i \in InvoiceIds |->
                    IF invoices[i].reminder_sent_at = <<>> THEN <<>> ELSE <<1>>]
    /\ last = NoLast
    /\ runs_today = 0
    /\ runs = NoRuns

\* ReminderService.update_settings(owner_id, data): the settings are loaded (or
\* created), changed and saved.
UpdateSettings ==
    /\ pc = "idle"
    /\ \E data \in SettingsDataChoices :
          reminder_settings' =
             <<update_settings(get_settings(reminder_settings), data)>>
    /\ returned' = NoResults
    /\ UNCHANGED <<now, invoices, pc, overdue_invoices, results, outbox, last,
                   runs_today, runs>>

\* ReminderSettings.from_dict(data): what the call gives is returned.
SettingsFromDict ==
    /\ \E data \in SettingsDataChoices : returned' = settings_from_dict(data)
    /\ UNCHANGED <<now, invoices, reminder_settings, pc, overdue_invoices, results,
                   outbox, last, runs_today, runs>>

SettingsNext ==
    \/ Tick
    \/ UpdateSettings
    \/ SettingsFromDict
    \/ StartRun
    \/ ProcessInvoice
    \/ FinishRun

SettingsSpec == SettingsInit /\ [][SettingsNext]_vars

\* ------------------------------------------------------------ invoice numbers
\* InvoiceRepository.create_invoice: a number is generated from the highest stored
\* number, then the row is inserted. Two callers may be between the two steps at the
\* same time. An invoice_number INV-<year>-<digits> is written as the record of its
\* year and its digits.
\* Invoices stored or being created, at most.
MaxCreated == 4
\* Days in a year of the clock.
DaysPerYear == 2

\* datetime.now().year
year(t) == t \div DaysPerYear

RECURSIVE str(_)
\* The decimal digits of n.
str(n) == IF n < 10 THEN <<n>> ELSE str(n \div 10) \o <<n % 10>>

RECURSIVE zfill(_, _)
zfill(digits, width) ==
    IF Len(digits) >= width THEN digits ELSE zfill(<<0>> \o digits, width)

\* f"{next_number:04d}"
format_04d(n) == zfill(str(n), 4)

RECURSIVE int(_)
\* int(s) of a string of digits
int(digits) ==
    IF Len(digits) = 0 THEN 0
    ELSE 10 * int(SubSeq(digits, 1, Len(digits) - 1)) + digits[Len(digits)]

RECURSIVE string_less(_, _)
\* a < b in the order of strings, which order_by compares invoice_number in
string_less(a, b) ==
    IF Len(b) = 0 THEN FALSE
    ELSE IF Len(a) = 0 THEN TRUE
    ELSE IF a[1] # b[1] THEN a[1] < b[1]
    ELSE string_less(Tail(a), Tail(b))

\* f"{prefix}{next_number:04d}"
numbered(prefix, next_number) == [prefix |-> prefix, digits |-> format_04d(next_number)]

\* filter(Invoice.invoice_number.like(f"{prefix}%"))
\*     .order_by(desc(Invoice.invoice_number)).first()
highest_invoice(rows, prefix) ==
    LET like == {k \in 1..Len(rows) : rows[k].invoice_number.prefix = prefix}
    IN  IF like = {} THEN <<>>
        ELSE LET k == CHOOSE k \in like :
                         \A j \in like :
                             ~string_less(rows[k].invoice_number.digits,
                                          rows[j].invoice_number.digits)
             IN  <<rows[k]>>

_generate_invoice_number(rows, t) ==
    LET prefix  == year(t)
        highest == highest_invoice(rows, prefix)
    IN  IF highest # <<>>
        THEN numbered(prefix, int(highest[1].invoice_number.digits) + 1)
        ELSE numbered(prefix, 1)

IntegrityError == "IntegrityError"

\* The unique index on invoices.invoice_number
unique_invoice_number(rows, invoice_number) ==
    \A k \in 1..Len(rows) : rows[k].invoice_number # invoice_number

\* An insert that no index guards.
create_unchecked(rows, invoice_number) ==
    [rows |-> Append(rows, [invoice_number |-> invoice_number]),
     returned |-> [invoice_number |-> invoice_number]]

\* BaseRepository.create for an invoice: session.add and session.flush, which the
\* unique index fails for a number that is stored already.
create(rows, invoice_number) ==
    IF unique_invoice_number(rows, invoice_number)
    THEN [rows |-> Append(rows, [invoice_number |-> invoice_number]),
          returned |-> [invoice_number |-> invoice_number]]
    ELSE [rows |-> rows, returned |-> [raised |-> IntegrityError]]

NoCreate == [pc |-> "idle", invoice_number |-> <<>>]

NumberInit ==
    /\ now = 0
    /\ invoices \in {<<>>, <<[invoice_number |-> numbered(year(0), 9998)]>>}
    /\ reminder_settings = <<>>
    /\ pc = "idle"
    /\ overdue_invoices = NoInvoices
    /\ results = NoResults
    /\ returned = NoResults
    /\ outbox = [i \in InvoiceIds |-> <<>>]
    /\ last = NoLast
    /\ runs_today = 0
    /\ runs = [r \in RunIds |-> NoCreate]

\* Caller r enters create_invoice and generates the number.
GenerateInvoiceNumber(r) ==
    /\ runs[r].pc = "idle"
    /\ Len(invoices) + Cardinality({c \in RunIds : runs[c].pc = "create"}) < MaxCreated
    /\ runs' = [runs EXCEPT ![r] = [pc |-> "create",
                                    invoice_number |-> _generate_invoice_number(invoices, now)]]
    /\ UNCHANGED <<now, invoices, reminder_settings, pc, overdue_invoices, results,
                   returned, outbox, last, runs_today>>

\* Caller r inserts the invoice with the number it generated.
InsertInvoice(r) ==
    /\ runs[r].pc = "create"
    /\ LET created == create(invoices, runs[r].invoice_number)
       IN  /\ invoices' = created.rows
           /\ returned' = created.returned
    /\ runs' = [runs EXCEPT ![r] = NoCreate]
    /\ UNCHANGED <<now, reminder_settings, pc, overdue_invoices, results, outbox,
                   last, runs_today>>

NumberNext ==
    \/ Tick
    \/ \E r \in RunIds : GenerateInvoiceNumber(r)
    \/ \E r \in RunIds : InsertInvoice(r)

NumberSpec == NumberInit /\ [][NumberNext]_vars

\* ------------------------------------------------------------ InvoiceItem
\* The update methods of InvoiceItem called on one item, which the store variable
\* holds under the id of its invoice.
ValueError == "ValueError"

\* The quantities and unit prices a caller passes: valid ones, zero and negative ones.
QuantityChoices == {-1, 0, 1, 2, 3}
UnitPriceChoices == {-50000, 0, 50000, 100000}

\* item.calculate_total()
calculate_total(item) == [item EXCEPT !.total = item.quantity * item.unit_price]

\* An update of the quantity that leaves the total as it was.
update_quantity_keeps_total(item, quantity, t) ==
    [item |-> [item EXCEPT !.quantity = quantity, !.updated_at = t], raised |-> ""]

\* item.update_quantity(quantity): the item afterwards and the exception raised.
update_quantity(item, quantity, t) ==
    IF quantity <= 0
    THEN [item |-> item, raised |-> ValueError]
    ELSE [item |-> [calculate_total([item EXCEPT !.quantity = quantity])
                        EXCEPT !.updated_at = t],
          raised |-> ""]

\* item.update_unit_price(unit_price)
update_unit_price(item, unit_price, t) ==
    IF unit_price < 0
    THEN [item |-> item, raised |-> ValueError]
    ELSE [item |-> [calculate_total([item EXCEPT !.unit_price = unit_price])
                        EXCEPT !.updated_at = t],
          raised |-> ""]

\* An item constructed on day t, with the timestamp of BaseModel that update() sets.
NewItem(quantity, unit_price, t) ==
    InvoiceItem(quantity, unit_price) @@ [updated_at |-> t]

ItemInit ==
    /\ now = 0
    /\ invoices \in [InvoiceIds -> {NewItem(quantity, unit_price, 0) :
                                       quantity \in {1, 2}, unit_price \in {0, 50000}}]
    /\ reminder_settings = <<>>
    /\ pc = "idle"
    /\ overdue_invoices = NoInvoices
    /\ results = NoResults
    /\ returned = NoResults
    /\ outbox = [i \in InvoiceIds |-> <<>>]
    /\ last = NoLast
    /\ runs_today = 0
    /\ runs = NoRuns

UpdateQuantity(i) ==
    /\ \E quantity \in QuantityChoices :
          LET updated == update_quantity(invoices[i], quantity, now)
          IN  /\ invoices' = [invoices EXCEPT ![i] = updated.item]
              /\ returned' = [operation |-> "update_quantity", argument |-> quantity,
                              raised |-> updated.raised]
    /\ UNCHANGED <<now, reminder_settings, pc, overdue_invoices, results, outbox,
                   last, runs_today, runs>>

UpdateUnitPrice(i) ==
    /\ \E unit_price \in UnitPriceChoices :
          LET updated == update_unit_price(invoices[i], unit_price, now)
          IN  /\ invoices' = [invoices EXCEPT ![i] = updated.item]
              /\ returned' = [operation |-> "update_unit_price", argument |-> unit_price,
                              raised |-> updated.raised]
    /\ UNCHANGED <<now, reminder_settings, pc, overdue_invoices, results, outbox,
                   last, runs_today, runs>>

ItemNext ==
    \/ Tick
    \/ \E i \in DOMAIN invoices : UpdateQuantity(i)
    \/ \E i \in DOMAIN invoices : UpdateUnitPrice(i)

ItemSpec == ItemInit /\ [][ItemNext]_vars

\* ------------------------------------------------------------ InvoiceService.send_invoice
\* send_invoice asks invoice.can_be_sent() first. Invoice defines no such method, so
\* every outcome of the call is taken: it answers True, it answers False, or the
\* call raises AttributeError.
AttributeError == "AttributeError"
CanBeSentOutcomes == {"True", "False", AttributeError}

\* A send_invoice that moves the invoice before it knows whether the email went out.
send_invoice_before_email(invoice, can_be_sent, so, sv, t) ==
    [invoice |-> send(invoice, t), returned |-> [send_invoice |-> so = "delivered"]]

\* InvoiceService.send_invoice(invoice_id) for a stored invoice: the invoice the
\* store holds afterwards and what the call returns or raises. so is the outcome of
\* the PDF and email step, sv the outcome of invoice_repository.save.
send_invoice(invoice, can_be_sent, so, sv, t) ==
    IF can_be_sent = AttributeError
    THEN [invoice |-> invoice, returned |-> [raised |-> AttributeError]]
    ELSE IF can_be_sent = "False"
    THEN [invoice |-> invoice, returned |-> [raised |-> ValueError]]
    ELSE IF so = "delivered" /\ sv = "saved"
    THEN [invoice |-> send(invoice, t), returned |-> [send_invoice |-> TRUE]]
    ELSE [invoice |-> invoice, returned |-> [send_invoice |-> FALSE]]

\* InvoiceService.send_invoice(invoice_id); the outcomes of the email step and of
\* the save are remembered when the call got that far.
ServiceSendInvoice(i) ==
    /\ pc = "idle"
    /\ \E can_be_sent \in CanBeSentOutcomes, so \in SendOutcomes, sv \in SaveOutcomes :
          LET sent == send_invoice(invoices[i], can_be_sent, so, sv, now)
          IN  /\ invoices' = repo_save(invoices, i, sent.invoice)
              /\ returned' = sent.returned
              /\ last' = IF can_be_sent = "True"
                         THEN [id |-> i, number |-> None, send |-> so,
                               save |-> IF so = "delivered" THEN sv ELSE ""]
                         ELSE NoLast
    /\ UNCHANGED <<now, reminder_settings, pc, overdue_invoices, results, outbox,
                   runs_today, runs>>

DeliveryNext ==
    \/ Tick
    \/ \E i \in DOMAIN invoices : ServiceSendInvoice(i)
    \/ \E i \in DOMAIN invoices : MarkAsPaid(i)
    \/ \E i \in DOMAIN invoices : CancelInvoice(i)
    \/ \E i \in DOMAIN invoices : CheckOverdue(i)

DeliverySpec == TransitionInit /\ [][DeliveryNext]_vars

\* ------------------------------------------------------------ PaymentService
\* record_payment and process_refund on one invoice row and the payment rows of
\* that invoice, which the row carries as its payments. What a call changed in the
\* session is stored when the call commits and is dropped when it rolls back.
\* Payment rows of an invoice, at most.
MaxPayments == 3

PARTIALLY_PAID == "partially_paid"
COMPLETED == "completed"
REFUNDED == "refunded"

\* The invoice rows payments are recorded for: one per status, with a total of 24.00.
PaymentRows ==
    {invoice @@ [total |-> 240000, amount_paid |-> 0, payments |-> <<>>] :
         invoice \in {row \in Rows : row.reminder_count = 0}}

\* The amounts of a payment: nothing, 10.00 and the total.
PaymentAmounts == {0, 100000, 240000}
\* The refund_amount argument: None for a full refund, 6.00, 10.00 and 30.00.
RefundAmounts == {None, 60000, 100000, 300000}
\* What the receipt or notification email does when it is asked for.
ReceiptOutcomes == {"delivered", "not_sent", "raises"}

\* PaymentRepository.create for a payment and for a refund, whose notes name the
\* payment it refunds.
Payment(amount, t) ==
    [amount |-> amount, payment_date |-> t, status |-> COMPLETED, is_refund |-> FALSE,
     notes |-> None]
Refund(payment_id, refund_amount, t) ==
    [amount |-> 0 - refund_amount, payment_date |-> t, status |-> COMPLETED,
     is_refund |-> TRUE, notes |-> payment_id]

\* PaymentService.record_payment(invoice_id, amount, send_receipt=...): the invoice
\* row with its payments afterwards, the exception raised, and the invoice of the
\* tuple it returns (<<>> for None).
record_payment(invoice, amount, send_receipt, receipt, t) ==
    IF amount <= 0
    THEN [invoice |-> invoice, raised |-> ValueError, updated_invoice |-> <<>>]
    ELSE LET payment == Payment(amount, t)
             updated_invoice == repository_mark_as_paid(invoice, None, t)
         IN  IF send_receipt /\ updated_invoice = <<>>
             THEN [invoice |-> invoice, raised |-> AttributeError,
                   updated_invoice |-> <<>>]
             ELSE IF /\ send_receipt
                     /\ updated_invoice[1].status = PAID
                     /\ receipt = "raises"
             THEN [invoice |-> invoice, raised |-> "Exception", updated_invoice |-> <<>>]
             ELSE [invoice |-> [(IF updated_invoice = <<>> THEN invoice
                                 ELSE updated_invoice[1])
                                   EXCEPT !.payments = Append(@, payment)],
                   raised |-> "",
                   updated_invoice |-> updated_invoice]

\* The status of the invoice after a refund took its amount out of amount_paid.
status_after_refund(invoice) ==
    IF invoice.amount_paid < invoice.total
    THEN IF invoice.amount_paid > 0 THEN PARTIALLY_PAID ELSE SENT
    ELSE invoice.status

\* PaymentService.process_refund(payment_id, refund_amount, send_notification=...)
\* for a payment row of the invoice.
process_refund(invoice, payment_id, refund_amount, send_notification, notification, t) ==
    LET original_payment == invoice.payments[payment_id]
        amount == IF refund_amount = None THEN original_payment.amount
                  ELSE refund_amount
    IN  IF original_payment.status # COMPLETED
        THEN [invoice |-> invoice, raised |-> ValueError]
        ELSE IF amount <= 0 \/ amount > original_payment.amount
        THEN [invoice |-> invoice, raised |-> ValueError]
        ELSE IF send_notification /\ notification = "raises"
        THEN [invoice |-> invoice, raised |-> "Exception"]
        ELSE LET refunded == [invoice EXCEPT
                     !.payments = Append(
                         [@ EXCEPT ![payment_id].status =
                              IF amount >= original_payment.amount THEN REFUNDED
                              ELSE @],
                         Refund(payment_id, amount, t)),
                     !.amount_paid = @ - amount]
             IN  [invoice |-> [refunded EXCEPT !.status = status_after_refund(refunded)],
                  raised |-> ""]

PaymentInit ==
    /\ now = 0
    /\ invoices \in [InvoiceIds -> PaymentRows]
    /\ reminder_settings = <<>>
    /\ pc = "idle"
    /\ overdue_invoices = NoInvoices
    /\ results = NoResults
    /\ returned = NoResults
    /\ outbox = [i \in InvoiceIds |-> <<>>]
    /\ last = NoLast
    /\ runs_today = 0
    /\ runs = NoRuns

RecordPayment(i) ==
    /\ Len(invoices[i].payments) < MaxPayments
    /\ \E amount \in PaymentAmounts, send_receipt \in BOOLEAN,
          receipt \in ReceiptOutcomes :
          LET recorded == record_payment(invoices[i], amount, send_receipt, receipt, now)
          IN  /\ invoices' = [invoices EXCEPT ![i] = recorded.invoice]
              /\ returned' = [operation |-> "record_payment",
                              send_receipt |-> send_receipt,
                              raised |-> recorded.raised,
                              updated_invoice |-> recorded.updated_invoice]
    /\ UNCHANGED <<now, reminder_settings, pc, overdue_invoices, results, outbox,
                   last, runs_today, runs>>

ProcessRefund(i) ==
    /\ Len(invoices[i].payments) < MaxPayments
    /\ \E payment_id \in 1..Len(invoices[i].payments), refund_amount \in RefundAmounts,
          send_notification \in BOOLEAN, notification \in ReceiptOutcomes :
          LET refunded == process_refund(invoices[i], payment_id, refund_amount,
                                         send_notification, notification, now)
          IN  /\ invoices' = [invoices EXCEPT ![i] = refunded.invoice]
              /\ returned' = [operation |-> "process_refund", payment_id |-> payment_id,
                              raised |-> refunded.raised]
    /\ UNCHANGED <<now, reminder_settings, pc, overdue_invoices, results, outbox,
                   last, runs_today, runs>>

PaymentNext ==
    \/ Tick
    \/ \E i \in DOMAIN invoices : RecordPayment(i)
    \/ \E i \in DOMAIN invoices : ProcessRefund(i)

PaymentSpec == PaymentInit /\ [][PaymentNext]_vars

\* ------------------------------------------------------------ ReminderRepository
\* Scheduled reminders of one invoice row, which the row carries as its reminders.
\* Reminder rows of an invoice, at most.
MaxScheduled == 2

\* ReminderStatus
SCHEDULED == "scheduled"
ReminderSent == "sent"
FAILED == "failed"

\* The invoice rows reminders are scheduled for: one per status, none counted yet.
ReminderRows ==
    {invoice @@ [reminders |-> <<>>] :
         invoice \in {row \in Rows : row.reminder_count = 0}}

\* ReminderRepository.create_reminder(invoice_id, scheduled_date)
create_reminder(invoice, scheduled_date) ==
    [invoice EXCEPT !.reminders =
         Append(@, [status |-> SCHEDULED, scheduled_date |-> scheduled_date,
                    sent_date |-> None, error_message |-> None, updated_at |-> None])]

\* A mark_as_sent that does not look at the status of the reminder.
reminder_mark_as_sent_again(invoice, reminder_id, t) ==
    LET recorded == repository_record_reminder_sent(invoice, t)
        updated  == IF recorded = <<>> THEN invoice ELSE recorded[1]
    IN  [invoice |-> [updated EXCEPT !.reminders[reminder_id].status = ReminderSent,
                                     !.reminders[reminder_id].sent_date = t,
                                     !.reminders[reminder_id].updated_at = t],
         result |-> <<reminder_id>>]

\* ReminderRepository.mark_as_sent(reminder_id): the invoice row with its reminders
\* afterwards, and <<reminder_id>> for the reminder it returns or <<>> for None.
reminder_mark_as_sent(invoice, reminder_id, t) ==
    IF invoice.reminders[reminder_id].status = SCHEDULED
    THEN LET recorded == repository_record_reminder_sent(invoice, t)
             updated  == IF recorded = <<>> THEN invoice ELSE recorded[1]
         IN  [invoice |-> [updated EXCEPT !.reminders[reminder_id].status = ReminderSent,
                                          !.reminders[reminder_id].sent_date = t,
                                          !.reminders[reminder_id].updated_at = t],
              result |-> <<reminder_id>>]
    ELSE [invoice |-> invoice, result |-> <<>>]

\* ReminderRepository.mark_as_failed(reminder_id, error_message)
reminder_mark_as_failed(invoice, reminder_id, error_message, t) ==
    IF invoice.reminders[reminder_id].status = SCHEDULED
    THEN [invoice |-> [invoice EXCEPT
                          !.reminders[reminder_id].status = FAILED,
                          !.reminders[reminder_id].error_message = error_message,
                          !.reminders[reminder_id].updated_at = t],
          result |-> <<reminder_id>>]
    ELSE [invoice |-> invoice, result |-> <<>>]

ScheduleInit ==
    /\ now = 0
    /\ invoices \in [InvoiceIds -> ReminderRows]
    /\ reminder_settings = <<>>
    /\ pc = "idle"
    /\ overdue_invoices = NoInvoices
    /\ results = NoResults
    /\ returned = NoResults
    /\ outbox = [i \in InvoiceIds |-> <<>>]
    /\ last = NoLast
    /\ runs_today = 0
    /\ runs = NoRuns

CreateReminder(i) ==
    /\ Len(invoices[i].reminders) < MaxScheduled
    /\ invoices' = [invoices EXCEPT ![i] = create_reminder(@, now)]
    /\ returned' = [operation |-> "create_reminder",
                    reminder_id |-> Len(invoices[i].reminders) + 1,
                    result |-> <<Len(invoices[i].reminders) + 1>>]
    /\ UNCHANGED <<now, reminder_settings, pc, overdue_invoices, results, outbox,
                   last, runs_today, runs>>

ReminderMarkAsSent(i) ==
    /\ \E reminder_id \in 1..Len(invoices[i].reminders) :
          LET marked == reminder_mark_as_sent(invoices[i], reminder_id, now)
          IN  /\ invoices' = [invoices EXCEPT ![i] = marked.invoice]
              /\ returned' = [operation |-> "mark_as_sent", reminder_id |-> reminder_id,
                              result |-> marked.result]
    /\ UNCHANGED <<now, reminder_settings, pc, overdue_invoices, results, outbox,
                   last, runs_today, runs>>

ReminderMarkAsFailed(i) ==
    /\ \E reminder_id \in 1..Len(invoices[i].reminders) :
          LET marked == reminder_mark_as_failed(invoices[i], reminder_id, 1, now)
          IN  /\ invoices' = [invoices EXCEPT ![i] = marked.invoice]
              /\ returned' = [operation |-> "mark_as_failed", reminder_id |-> reminder_id,
                              result |-> marked.result]
    /\ UNCHANGED <<now, reminder_settings, pc, overdue_invoices, results, outbox,
                   last, runs_today, runs>>

ScheduleNext ==
    \/ Tick
    \/ \E i \in DOMAIN invoices : CreateReminder(i)
    \/ \E i \in DOMAIN invoices : ReminderMarkAsSent(i)
    \/ \E i \in DOMAIN invoices : ReminderMarkAsFailed(i)

ScheduleSpec == ScheduleInit /\ [][ScheduleNext]_vars

\* ------------------------------------------------------------ CustomerRepository
\* get_or_create on the customers table, which the store variable holds as the
\* sequence of its rows.
UserIds == {1, 2}
\* The email addresses callers pass: one in two spellings, and another one.
EmailChoices == {"a@x.com", "A@x.com", "b@x.com"}

\* func.lower(email)
lower(email) == IF email = "A@x.com" THEN "a@x.com" ELSE email

\* The rows get_by_email(email) matches; .first() returns one of them, the query
\* having no order.
matching_email(customers, email) ==
    {k \in 1..Len(customers) : lower(customers[k].email) = lower(email)}

\* The unique index on customers.email
unique_email(customers, email) ==
    \A k \in 1..Len(customers) : customers[k].email # email

\* BaseRepository.create for a customer: the table afterwards and the tuple that
\* get_or_create returns, or the exception of the flush.
create_customer(customers, user_id, email) ==
    IF unique_email(customers, email)
    THEN [customers |-> Append(customers, [user_id |-> user_id, email |-> email]),
          returned |-> [customer |-> Len(customers) + 1, created |-> TRUE]]
    ELSE [customers |-> customers, returned |-> [raised |-> IntegrityError]]

\* get_or_create(user_id, email) when get_by_email found the rows in first: <<>>
\* for None, <<k>> for row k.
get_or_create(customers, user_id, email, first) ==
    IF first # <<>>
    THEN IF customers[first[1]].user_id # user_id
         THEN create_customer(customers, user_id, email)
         ELSE [customers |-> customers,
               returned |-> [customer |-> first[1], created |-> FALSE]]
    ELSE create_customer(customers, user_id, email)

CustomerInit ==
    /\ now = 0
    /\ invoices = <<>>
    /\ reminder_settings = <<>>
    /\ pc = "idle"
    /\ overdue_invoices = NoInvoices
    /\ results = NoResults
    /\ returned = NoResults
    /\ outbox = [i \in InvoiceIds |-> <<>>]
    /\ last = NoLast
    /\ runs_today = 0
    /\ runs = NoRuns

\* get_or_create(user_id, email); the arguments of the call are remembered.
GetOrCreate ==
    /\ \E user_id \in UserIds, email \in EmailChoices :
          \E first \in IF matching_email(invoices, email) = {} THEN {<<>>}
                       ELSE {<<k>> : k \in matching_email(invoices, email)} :
              LET got == get_or_create(invoices, user_id, email, first)
              IN  /\ invoices' = got.customers
                  /\ returned' = got.returned
                  /\ last' = [id |-> user_id, number |-> email, send |-> "", save |-> ""]
    /\ UNCHANGED <<now, reminder_settings, pc, overdue_invoices, results, outbox,
                   runs_today, runs>>

CustomerNext ==
    \/ GetOrCreate

CustomerSpec == CustomerInit /\ [][CustomerNext]_vars

\* ------------------------------------------------------------ the next reminder day
\* ReminderSettings.get_next_reminder_day on settings whose reminder_days are
\* stored in any order.
\* Days overdue asked about, at most.
MaxDaysOverdue == 9

\* The reminder_days stored: none, ascending, descending, mixed and repeated days.
StoredDaysChoices ==
    {<<>>, <<5>>, <<1, 2>>, <<2, 1>>, <<3, 7>>, <<7, 3>>, <<2, 5, 5>>, <<3, 5, 7>>,
     <<7, 3, 5>>, <<5, 7, 3>>}

RECURSIVE insert_sorted(_, _)
\* days, which is ascending, with day put in its place.
insert_sorted(days, day) ==
    IF Len(days) = 0 THEN <<day>>
    ELSE IF day <= days[1] THEN <<day>> \o days
    ELSE <<days[1]>> \o insert_sorted(Tail(days), day)

RECURSIVE sorted(_)
\* sorted(days)
sorted(days) ==
    IF Len(days) = 0 THEN <<>>
    ELSE insert_sorted(sorted(SubSeq(days, 1, Len(days) - 1)), days[Len(days)])

RECURSIVE first_day_from(_, _)
\* The loop over the days: the first day with days_overdue <= day, or None.
first_day_from(days, overdue) ==
    IF Len(days) = 0 THEN None
    ELSE IF overdue <= days[1] THEN days[1]
    ELSE first_day_from(Tail(days), overdue)

\* get_next_reminder_day looping over the days as they are stored.
get_next_reminder_day_as_stored(settings, overdue) ==
    first_day_from(settings.reminder_days, overdue)

\* settings.get_next_reminder_day(days_overdue)
get_next_reminder_day(settings, overdue) ==
    first_day_from(sorted(settings.reminder_days), overdue)

NextDayInit ==
    /\ now = 0
    /\ invoices = NoInvoices
    /\ reminder_settings \in {<<[DefaultSettings EXCEPT !.reminder_days = rd]>> :
                                 rd \in StoredDaysChoices}
    /\ pc = "idle"
    /\ overdue_invoices = NoInvoices
    /\ results = NoResults
    /\ returned = NoResults
    /\ outbox = [i \in InvoiceIds |-> <<>>]
    /\ last = NoLast
    /\ runs_today = 0
    /\ runs = NoRuns

\* get_next_reminder_day(days_overdue) on the stored settings.
GetNextReminderDay ==
    /\ \E overdue \in -1..MaxDaysOverdue :
          returned' = [days_overdue |-> overdue,
                       next_reminder_day |->
                           get_next_reminder_day(reminder_settings[1], overdue)]
    /\ UNCHANGED <<now, invoices, reminder_settings, pc, overdue_invoices, results,
                   outbox, last, runs_today, runs>>

NextDayNext ==
    \/ GetNextReminderDay

NextDaySpec == NextDayInit /\ [][NextDayNext]_vars

\* ------------------------------------------------------------ properties
\* The invoice has been paid or cancelled.
Terminal(invoice) == invoice.status \in {PAID, CANCELLED}

\* C1: PAID and CANCELLED are terminal: no operation changes the status of an invoice
\* that is PAID or CANCELLED.
C1_TerminalStatusKept ==
    [][\A i \in DOMAIN invoices :
          Terminal(invoices[i]) => invoices'[i].status = invoices[i].status]_vars

\* What C2 says _get_reminder_number returns for an invoice at time t.
ExpectedReminderNumber(settings, invoice, t) ==
    LET reminders_sent == Len(invoice.reminder_sent_at) IN
    IF /\ invoice.status = OVERDUE
       /\ reminders_sent < Len(settings.reminder_days)
       /\ t - invoice.due_date >= settings.reminder_days[reminders_sent + 1]
    THEN reminders_sent + 1
    ELSE None

\* An invoice due on day 0 and overdue, with k reminders recorded.
OverdueWith(k) == Reminded(check_overdue(send(NewInvoice(0, 0), 0), 1), k, 1)

\* C2: _get_reminder_number returns reminders_sent + 1 exactly when the invoice is
\* OVERDUE, reminders_sent < len(reminder_days) and days_overdue >=
\* reminder_days[reminders_sent], and None otherwise; with the days [3, 7, 14]:
\* (5 days, 0 sent) -> 1, (5 days, 1 sent) -> None, (8 days, 1 sent) -> 2,
\* (20 days, 3 sent) -> None.
C2_ReminderNumber ==
    /\ last.id # None =>
          last.number = ExpectedReminderNumber(get_settings(reminder_settings),
                                               invoices[last.id], now)
    /\ (last.id # None /\ reminder_settings = <<>>
          /\ invoices[last.id].status = OVERDUE) =>
          LET sent == Len(invoices[last.id].reminder_sent_at) IN
          /\ (now = 5 /\ sent = 0) => last.number = 1
          /\ (now = 5 /\ sent = 1) => last.number = None
          /\ (now = 8 /\ sent = 1) => last.number = 2
          /\ (now = 20 /\ sent = 3) => last.number = None

\* The decision for an invoice 8 days overdue with one reminder sent, days [3, 7, 14].
C2_Witness ==
    /\ last.id # None
    /\ reminder_settings = <<>>
    /\ now = 8
    /\ invoices[last.id] = OverdueWith(1)
    /\ last.number = 2

\* C3: no reminder number is emailed to the customer of an invoice more than once.
C3_NoReminderEmailedTwice ==
    \A i \in DOMAIN outbox :
       \A j, k \in 1..Len(outbox[i]) : j # k => outbox[i][j] # outbox[i][k]

\* C4: reminders are strictly sequential: the first reminder emailed for an invoice is
\* number 1, each later one is a number already emailed or the next one, and reminder
\* k is emailed only with reminders 1..k-1 recorded on the stored invoice.
C4_RemindersSequential ==
    \A i \in DOMAIN outbox :
       \A j \in 1..Len(outbox[i]) :
          /\ j = 1 => outbox[i][j] = 1
          /\ j > 1 => outbox[i][j] \in {outbox[i][j - 1], outbox[i][j - 1] + 1}
          /\ Len(invoices[i].reminder_sent_at) >= outbox[i][j] - 1

\* The first reminder of an invoice went out, and was recorded, on a day on which the
\* second threshold had passed as well.
C4_Witness ==
    \E i \in DOMAIN outbox :
       /\ outbox[i] = <<1>>
       /\ invoices[i].reminder_sent_at = <<now>>
       /\ Len(get_settings(reminder_settings).reminder_days) >= 2
       /\ days_overdue(invoices[i], now) >= get_settings(reminder_settings).reminder_days[2]

\* A step that is one iteration of the loop of process_reminders; last' names it.
Iteration == pc = "loop" /\ DOMAIN overdue_invoices' # DOMAIN overdue_invoices

\* A step in which process_reminders is called.
RunStarts == pc = "idle" /\ runs_today' = runs_today + 1

\* A step in which process_reminders returns from after its loop.
RunReturns == pc = "loop" /\ pc' = "idle"

\* C5: when a reminder has been sent and recorded for an invoice and process_reminders
\* meets the invoice again before days_overdue reaches the next configured threshold
\* (or with no threshold left), it emails nothing, changes no invoice and counts the
\* invoice as skipped.
C5_SecondRunSkips ==
    [][Iteration =>
          LET i == last'.id
              settings == get_settings(reminder_settings)
              reminders_sent == Len(invoices[i].reminder_sent_at)
          IN  (/\ invoices[i].status = OVERDUE
               /\ reminders_sent >= 1
               /\ \/ reminders_sent >= Len(settings.reminder_days)
                  \/ days_overdue(invoices[i], now) < settings.reminder_days[reminders_sent + 1])
              => /\ outbox' = outbox
                 /\ invoices' = invoices
                 /\ results' = [results EXCEPT !.skipped = @ + 1]]_vars

\* process_reminders has just skipped an invoice whose reminder was recorded the same
\* day, with a threshold still ahead.
C5_Witness ==
    /\ last.id # None
    /\ last.number = None
    /\ invoices[last.id].status = OVERDUE
    /\ invoices[last.id].reminder_sent_at = <<now>>
    /\ outbox[last.id] = <<1>>
    /\ results.skipped = 1
    /\ Len(get_settings(reminder_settings).reminder_days) >= 2
    /\ days_overdue(invoices[last.id], now) < get_settings(reminder_settings).reminder_days[2]

\* C6: when a reminder is due and the notifier fails (send_email returns False, or
\* rendering raises), errors is incremented by 1, nothing is emailed, no invoice is
\* changed or saved, and the same reminder number is chosen again from then on.
C6_FailedSendNotRecorded ==
    [][(Iteration /\ last'.number # None /\ last'.send # "delivered") =>
          /\ results' = [results EXCEPT !.errors = @ + 1]
          /\ outbox' = outbox
          /\ invoices' = invoices
          /\ \A t \in now..MaxDay :
                _get_reminder_number(get_settings(reminder_settings),
                                     invoices'[last'.id], t) = last'.number]_vars

\* A due reminder whose email was not sent.
C6_Witness ==
    /\ last.number # None
    /\ last.send \in {"not_sent", "render_error"}
    /\ results.errors >= 1

\* C7: in one run, each iteration changes exactly one counter by one, a failing one
\* (notifier, rendering or save) errors by exactly 1; it leaves every other listed
\* invoice to be processed, a delivered and saved reminder is counted as sent and
\* recorded whatever failed before, and the run returns only with every listed invoice
\* counted.
C7_BatchIsolation ==
    [][/\ Iteration =>
             LET i == last'.id
                 failed == /\ last'.number # None
                           /\ (last'.send # "delivered" \/ last'.save # "saved")
                 succeeded == /\ last'.number # None
                              /\ last'.send = "delivered" /\ last'.save = "saved"
             IN  /\ failed => results' = [results EXCEPT !.errors = @ + 1]
                 /\ succeeded =>
                       /\ results' = [results EXCEPT !.sent = @ + 1]
                       /\ outbox'[i] = Append(outbox[i], last'.number)
                       /\ Len(invoices'[i].reminder_sent_at) = last'.number
                 /\ last'.number = None => results' = [results EXCEPT !.skipped = @ + 1]
                 /\ pc' = "loop"
                 /\ DOMAIN overdue_invoices' = DOMAIN overdue_invoices \ {i}
                 /\ \A j \in DOMAIN overdue_invoices' :
                       overdue_invoices'[j] = overdue_invoices[j] /\ invoices'[j] = invoices[j]
       /\ RunReturns =>
             /\ returned' = results
             /\ results.sent + results.skipped + results.errors = results.processed]_vars

\* In one run an invoice failed and, after it, the reminder of another invoice was
\* delivered and saved.
C7_Witness ==
    /\ results.errors = 1
    /\ results.sent = 1
    /\ last.send = "delivered"
    /\ last.save = "saved"

\* C8: with enabled = false, process_reminders returns {processed: 0, sent: 0,
\* skipped: 0, errors: 0, disabled: true}, sends nothing and changes no invoice.
C8_DisabledTouchesNothing ==
    [][(RunStarts /\ ~get_settings(reminder_settings).enabled) =>
          /\ returned' = [processed |-> 0, sent |-> 0, skipped |-> 0, errors |-> 0,
                          disabled |-> TRUE]
          /\ pc' = "idle"
          /\ invoices' = invoices
          /\ outbox' = outbox]_vars

\* A disabled run has returned while an invoice with a reminder due was in the store.
C8_Witness ==
    /\ "disabled" \in DOMAIN returned
    /\ returned.disabled
    /\ \E i \in DOMAIN invoices :
          /\ invoices[i].status = OVERDUE
          /\ days_overdue(invoices[i], now) >= get_settings(reminder_settings).reminder_days[1]

\* C9: once an invoice has been marked paid or cancelled, no step emails a reminder
\* for it or appends to its reminder history.
C9_NoReminderAfterPaid ==
    [][\A i \in DOMAIN invoices :
          (invoices[i].paid_at # None \/ Terminal(invoices[i])) =>
             /\ outbox'[i] = outbox[i]
             /\ invoices'[i].reminder_sent_at = invoices[i].reminder_sent_at]_vars

\* An enabled run has returned having listed nothing, with an invoice in the store that
\* was paid while a reminder was due for it.
C9_Witness ==
    /\ "processed" \in DOMAIN returned
    /\ returned.processed = 0
    /\ ~returned.disabled
    /\ \E i \in DOMAIN invoices :
          /\ invoices[i].status = PAID
          /\ invoices[i].sent_at # None
          /\ invoices[i].reminder_sent_at = <<>>
          /\ days_overdue(invoices[i], now) >= get_settings(reminder_settings).reminder_days[1]

\* C10: an invoice that is overdue before the clock's last day, stays unpaid and
\* uncancelled, with the notifier and the store succeeding and process_reminders kept
\* being run, eventually has len(reminder_days) reminders recorded.
C10_AllRemindersEventually ==
    \A i \in InvoiceIds :
       (invoices[i].status = OVERDUE /\ now < MaxDay)
          ~> (Len(invoices[i].reminder_sent_at)
                 >= Len(get_settings(reminder_settings).reminder_days))

\* Every configured reminder of an overdue invoice has been emailed and recorded.
C10_Witness ==
    \E i \in InvoiceIds :
       /\ invoices[i].status = OVERDUE
       /\ Len(invoices[i].reminder_sent_at) = 2
       /\ outbox[i] = <<1, 2>>

\* The invoices of the batch store that belong to another owner than the one
\* process_reminders is called for.
OtherOwnersInvoices == {2}

\* C11: process_reminders(owner_id) is scoped to its owner: an invoice of another owner
\* is never listed by a run (so it is not counted in processed), never emailed about
\* and never changed.
C11_OwnerScoped ==
    [][\A i \in DOMAIN invoices \cap OtherOwnersInvoices :
          /\ i \notin DOMAIN overdue_invoices'
          /\ outbox'[i] = outbox[i]
          /\ invoices'[i] = invoices[i]]_vars

TimesEmailed(sent, k) == Cardinality({j \in 1..Len(sent) : sent[j] = k})

\* C13: process_reminders is unsafe when two calls overlap on an invoice: two calls
\* that have both listed the invoice while reminder k was due both email reminder k,
\* however their steps interleave afterwards, unless the notifier fails one of them.
C13_BothRunsSendSame ==
    \A i \in DOMAIN invoices : \A r1, r2 \in DOMAIN runs :
       (/\ r1 # r2
        /\ i \in DOMAIN runs[r1].workers
        /\ i \in DOMAIN runs[r2].workers
        /\ runs[r1].overdue_invoices[i] = runs[r2].overdue_invoices[i]
        /\ _get_reminder_number(runs[r1].settings, runs[r1].overdue_invoices[i], now) # None
        /\ \A r \in {r1, r2} :
              /\ runs[r].workers[i].pc = "done"
              /\ runs[r].workers[i].send \notin {"not_sent", "render_error"})
       => TimesEmailed(outbox[i],
                       _get_reminder_number(runs[r1].settings,
                                            runs[r1].overdue_invoices[i], now)) >= 2

\* Both calls have emailed reminder 1 of the invoice and saved it: the customer got it
\* twice and the store records one reminder.
C13_Witness ==
    \E i \in DOMAIN invoices :
       /\ outbox[i] = <<1, 1>>
       /\ invoices[i].reminder_sent_at = <<now>>
       /\ \A r \in RunIds :
             /\ runs[r].pc = "done"
             /\ i \in DOMAIN runs[r].workers
             /\ runs[r].workers[i].number = 1
             /\ runs[r].workers[i].save = "saved"

RECURSIVE sequential_run(_, _, _, _, _, _)
\* process_reminders over the listed invoices `todo` one after the other, in the order
\* of their ids, with the notifier and the store doing for each invoice what they did
\* for its worker: the store and the counters at the end.
sequential_run(settings, listed, todo, workers, store, res) ==
    IF todo = {} THEN [invoices |-> store, results |-> res]
    ELSE LET i == CHOOSE j \in todo : \A k \in todo : j <= k
             r == process_invoice(settings, listed[i], now, res,
                                  workers[i].send, workers[i].save)
         IN  sequential_run(settings, listed, todo \ {i}, workers,
                            IF r.saved THEN repo_save(store, i, r.invoice) ELSE store,
                            r.results)

\* C14: when the iterations of one run over distinct invoices are interleaved step by
\* step (decide, send, record, persist), the run ends with the invoices stored and the
\* sent/skipped/errors counters that processing the listed invoices one after the
\* other gives.
C14_ParallelAsSequential ==
    \A r \in DOMAIN runs :
       (runs[r].pc = "done" /\ ~runs[r].results.disabled) =>
          LET listed == runs[r].overdue_invoices
              listed_store == [i \in DOMAIN invoices |->
                                  IF i \in DOMAIN listed THEN listed[i] ELSE invoices[i]]
              sequential == sequential_run(runs[r].settings, listed, DOMAIN listed,
                                           runs[r].workers, listed_store,
                                           ZeroResults(Cardinality(DOMAIN listed), FALSE))
          IN  /\ invoices = sequential.invoices
              /\ runs[r].results = sequential.results

\* A run over two invoices has ended with one reminder delivered and recorded and the
\* other one failed.
C14_Witness ==
    \E r \in DOMAIN runs :
       /\ runs[r].pc = "done"
       /\ runs[r].results.processed = 2
       /\ runs[r].results.sent = 1
       /\ runs[r].results.errors = 1
       /\ \E i \in DOMAIN invoices : invoices[i].reminder_sent_at = <<now>>

\* The items 2 x 10.00 and 1 x 5.00.
ExampleItems == <<InvoiceItem(2, 100000), InvoiceItem(1, 50000)>>

\* C15: every stored invoice (its totals come from calculate_totals, by add_item,
\* remove_item and the service's create and update) has subtotal = the sum of its
\* items' totals, vat_amount = (subtotal - discount_amount) * vat_rate / 100 and
\* total = (subtotal - discount_amount) + vat_amount, and so has every row of the
\* repository's create_invoice; the items (2 x 10.00, 1 x 5.00) with discount 10% and
\* tax 20% give subtotal 25.00, discount 2.50, tax 4.50 and total 27.00.
C15_TotalsConsistent ==
    /\ \A i \in DOMAIN invoices :
          LET invoice == invoices[i] IN
          /\ invoice.subtotal = sum_of_totals(invoice.items)
          /\ invoice.vat_amount * 100 =
                (invoice.subtotal - invoice.discount_amount) * invoice.vat_rate
          /\ invoice.total = (invoice.subtotal - invoice.discount_amount) + invoice.vat_amount
          /\ (/\ invoice.items = ExampleItems
              /\ invoice.discount_percentage = 10
              /\ invoice.vat_rate = 20)
             => /\ invoice.subtotal = 250000
                /\ invoice.discount_amount = 25000
                /\ invoice.vat_amount = 45000
                /\ invoice.total = 270000
    /\ "discount" \in DOMAIN returned =>
          /\ returned.vat_amount * 100 =
                (returned.subtotal - returned.discount) * returned.vat_rate
          /\ returned.total = (returned.subtotal - returned.discount) + returned.vat_amount

\* The stored invoice of the example, with its total of 27.00.
C15_Witness ==
    \E i \in DOMAIN invoices :
       /\ invoices[i].items = ExampleItems
       /\ invoices[i].discount_percentage = 10
       /\ invoices[i].vat_rate = 20
       /\ invoices[i].total = 270000

\* C16: every stored invoice has discount_amount = subtotal * discount_percentage /
\* 100, so 0 when the discount percentage is 0, whatever discount amount it held
\* before its totals were last calculated.
C16_DiscountFollowsPercentage ==
    \A i \in DOMAIN invoices :
       invoices[i].discount_amount * 100 =
          invoices[i].subtotal * invoices[i].discount_percentage

RECURSIVE sum_of_products(_)
\* The sum over the items of quantity * unit_price.
sum_of_products(items) ==
    IF items = <<>> THEN 0
    ELSE Head(items).quantity * Head(items).unit_price + sum_of_products(Tail(items))

\* The totals of the items and the subtotal are the recomputed ones.
Recomputed(items, subtotal) ==
    /\ subtotal = sum_of_products(items)
    /\ \A k \in 1..Len(items) : items[k].total = items[k].quantity * items[k].unit_price

\* C17: the subtotal of a stored invoice is the sum over its items of quantity *
\* unit_price and the total of each stored item is quantity * unit_price, whatever
\* totals the client sent: for the invoices the service saves, for the row crud
\* create_invoice stores and for the item InvoiceItem.from_dict builds.
C17_ClientTotalsIgnored ==
    /\ \A i \in DOMAIN invoices : Recomputed(invoices[i].items, invoices[i].subtotal)
    /\ "tax" \in DOMAIN returned => Recomputed(returned.items, returned.subtotal)
    /\ "quantity" \in DOMAIN returned =>
          returned.total = returned.quantity * returned.unit_price

\* The financial results of calculate_totals.
Totals(invoice) ==
    <<invoice.subtotal, invoice.discount_amount, invoice.vat_amount, invoice.total>>

\* C18: calculate_totals is idempotent: on a stored invoice, and on one whose fields or
\* items have been changed since its totals were calculated, a second call in a row
\* leaves subtotal, discount_amount, vat_amount and total as the first call left them.
C18_CalculateTotalsIdempotent ==
    \A i \in DOMAIN invoices :
       \A data \in UpdateDataChoices \cup {<<>>}, l \in ItemLists(MaxUpdateItems) :
          LET changed == [set_fields(invoices[i], data) EXCEPT
                             !.items = @ \o [k \in 1..Len(l) |->
                                                InvoiceItem(l[k].quantity, l[k].unit_price)]]
              once == calculate_totals(changed, now)
              twice == calculate_totals(once, now)
          IN  Totals(twice) = Totals(once)

\* A stored invoice with items and a discount whose totals a further calculate_totals
\* leaves as they are.
C18_Witness ==
    \E i \in DOMAIN invoices :
       /\ invoices[i].items = ExampleItems
       /\ invoices[i].discount_percentage = 10
       /\ invoices[i].discount_amount = 25000
       /\ calculate_totals(invoices[i], now) = invoices[i]

\* C19: no stored invoice has an item with quantity <= 0 or unit_price < 0: computing
\* its totals fails with a validation error and create_invoice and update_invoice do
\* not save it.
C19_InvalidItemsRejected ==
    \A i \in DOMAIN invoices :
       \A k \in 1..Len(invoices[i].items) :
          /\ invoices[i].items[k].quantity > 0
          /\ invoices[i].items[k].unit_price >= 0

\* The error of a rejected transition, as a call's outcome.
InvalidTransitionError == "InvalidTransitionError"

\* C20, as stated: send() from DRAFT succeeds, setting status SENT and sent_at = now;
\* send() from SENT fails with InvalidTransitionError.
C20_SendFromSentFails ==
    [][\A i \in DOMAIN invoices :
          SendInvoice(i) =>
             /\ invoices[i].status = DRAFT =>
                   invoices'[i].status = SENT /\ invoices'[i].sent_at = now
             /\ invoices[i].status = SENT =>
                   /\ "raised" \in DOMAIN returned'
                   /\ returned'.raised = InvalidTransitionError]_vars

\* C20, amended: send() from DRAFT succeeds, setting status SENT and sent_at = now;
\* send() from SENT raises nothing and leaves the invoice as it is, status and sent_at
\* included.
C20_SendFromSentIgnored ==
    [][\A i \in DOMAIN invoices :
          SendInvoice(i) =>
             /\ invoices[i].status = DRAFT =>
                   invoices'[i] = [invoices[i] EXCEPT !.status = SENT, !.sent_at = now,
                                                      !.updated_at = now]
             /\ invoices[i].status = SENT =>
                   invoices'[i] = invoices[i] /\ returned' = NoResults]_vars

\* An invoice sent on an earlier day is still SENT with the sent_at of that day, and an
\* operation has returned normally since the last run.
C20_Witness ==
    \E i \in DOMAIN invoices :
       /\ invoices[i].status = SENT
       /\ invoices[i].sent_at # None
       /\ invoices[i].sent_at < now
       /\ invoices[i].updated_at = invoices[i].sent_at
       /\ runs_today >= 1
       /\ returned = NoResults

\* C21: send() has no effect unless the invoice is DRAFT: called in any other status
\* it leaves status, sent_at, paid_at, the reminder history and the totals unchanged,
\* so that sent_at, once set, keeps the time of the first successful send in every
\* step.
C21_SendOnlyFromDraft ==
    [][\A i \in DOMAIN invoices :
          /\ (SendInvoice(i) /\ invoices[i].status # DRAFT) =>
                /\ invoices'[i].status = invoices[i].status
                /\ invoices'[i].sent_at = invoices[i].sent_at
                /\ invoices'[i].paid_at = invoices[i].paid_at
                /\ invoices'[i].reminder_sent_at = invoices[i].reminder_sent_at
                /\ Totals(invoices'[i]) = Totals(invoices[i])
                /\ invoices'[i].items = invoices[i].items
          /\ invoices[i].sent_at # None =>
                invoices'[i].sent_at = invoices[i].sent_at]_vars

\* An invoice sent on an earlier day, reminded and paid since, with its totals: a
\* send() now finds it in a status other than DRAFT.
C21_Witness ==
    \E i \in DOMAIN invoices :
       /\ invoices[i].status = PAID
       /\ invoices[i].sent_at # None
       /\ invoices[i].sent_at < invoices[i].paid_at
       /\ invoices[i].reminder_sent_at # <<>>
       /\ invoices[i].total = 240000
       /\ invoices[i].paid_at < now

C24_MarkAsPaidFromUnpaid ==
    ("operation" \in DOMAIN returned /\ returned.operation = "mark_as_paid"
        /\ returned.invoice.status \in {SENT, OVERDUE, REMINDER_SENT}) =>
       /\ returned.result # <<>>
       /\ returned.result[1].status = PAID
       /\ returned.result[1].payment_date # None

\* C25: record_reminder_sent on an OVERDUE invoice moves it to REMINDER_SENT and
\* appends exactly one timestamp to its reminder history (reminder count + 1).
C25_ReminderMovesStatus ==
    [][\A i \in DOMAIN invoices :
          (RecordReminderSent(i) /\ invoices[i].status = OVERDUE) =>
             /\ invoices'[i].status = REMINDER_SENT
             /\ invoices'[i].reminder_sent_at = Append(invoices[i].reminder_sent_at, now)]_vars

\* C26: a generic update with an arbitrary update dictionary never changes status,
\* subtotal or total directly: crud update_invoice returns the row with the status,
\* subtotal and total it had.
C26_UpdateKeepsStatusAndTotals ==
    ("operation" \in DOMAIN returned /\ returned.operation = "update_invoice") =>
       /\ returned.result.status = returned.invoice.status
       /\ returned.result.subtotal = returned.invoice.subtotal
       /\ returned.result.total = returned.invoice.total

\* reminder_days is strictly ascending.
StrictlyAscending(reminder_days) ==
    \A k \in 1..(Len(reminder_days) - 1) : reminder_days[k] < reminder_days[k + 1]

\* C27: in every reachable state of an owner's ReminderSettings (after construction,
\* from_dict and any update_settings call), reminder_days is strictly ascending and,
\* when enabled is true, non-empty.
C27_ReminderDaysAscending ==
    /\ reminder_settings # <<>> =>
          /\ StrictlyAscending(reminder_settings[1].reminder_days)
          /\ reminder_settings[1].enabled => reminder_settings[1].reminder_days # <<>>
    /\ "reminder_days" \in DOMAIN returned =>
          /\ StrictlyAscending(returned.reminder_days)
          /\ returned.enabled => returned.reminder_days # <<>>

\* The last timestamp of the reminder history, or None.
LastReminder(invoice) ==
    IF invoice.reminder_sent_at = <<>> THEN None
    ELSE invoice.reminder_sent_at[Len(invoice.reminder_sent_at)]

\* C28: every state transition of an invoice (send from DRAFT, the overdue flip by
\* check_overdue or the sweep, mark_as_paid, cancel, record_reminder_sent) sets the
\* invoice's updated_at to the time of the transition, and in every state updated_at
\* is not earlier than sent_at, paid_at or the last reminder timestamp.
C28_TransitionsStampUpdatedAt ==
    /\ [][\A i \in DOMAIN invoices :
             (\/ invoices'[i].status # invoices[i].status
              \/ MarkAsPaid(i)
              \/ CancelInvoice(i)
              \/ RecordReminderSent(i)) =>
                invoices'[i].updated_at = now]_vars
    /\ [](\A i \in DOMAIN invoices :
             /\ invoices[i].updated_at >= invoices[i].sent_at
             /\ invoices[i].updated_at >= invoices[i].paid_at
             /\ invoices[i].updated_at >= LastReminder(invoices[i]))

\* An invoice sent, then reminded and paid, and cancelled today, a later day than its
\* other timestamps: the cancellation stamped it.
C28_Witness ==
    \E i \in DOMAIN invoices :
       /\ invoices[i].status = CANCELLED
       /\ invoices[i].sent_at # None
       /\ invoices[i].paid_at > invoices[i].sent_at
       /\ LastReminder(invoices[i]) > invoices[i].sent_at
       /\ invoices[i].updated_at > invoices[i].paid_at
       /\ invoices[i].updated_at > LastReminder(invoices[i])
       /\ invoices[i].updated_at = now

\* The subject or the message template of a reminder number references a placeholder
\* that the interpolation context has no value for.
MissingPlaceholder(settings, reminder_number) ==
    \E part \in 1..2 :
       LET template == get_reminder_template(settings, reminder_number)[part] IN
       \E k \in 1..Len(template) : template[k] \notin template_vars

\* C29: when the subject or message template of the reminder that is due for an invoice
\* references a placeholder absent from the interpolation context, the iteration of
\* process_reminders for that invoice sends no email, records no reminder (no invoice
\* changes) and increments errors by 1, leaving sent and skipped as they were.
C29_MissingPlaceholderFails ==
    [][Iteration =>
          LET settings == get_settings(reminder_settings)
              number == _get_reminder_number(settings, overdue_invoices[last'.id], now)
          IN  (number # None /\ MissingPlaceholder(settings, number)) =>
                 /\ outbox' = outbox
                 /\ invoices' = invoices
                 /\ results' = [results EXCEPT !.errors = @ + 1]]_vars

\* Inside a run, the last iteration had reminder 1 due and its rendering raised, with a
\* subject or message of reminder 1 that references an unknown placeholder.
C29_Witness ==
    /\ pc = "loop"
    /\ last.number = 1
    /\ last.send = "render_error"
    /\ MissingPlaceholder(get_settings(reminder_settings), 1)
    /\ results.errors = 1
    /\ results.sent = 0

\* C30: for every enabled process_reminders run, processed is the number of overdue
\* invoices the run listed, inside the loop processed = sent + skipped + errors + the
\* number of listed invoices still to be processed, and at return
\* processed = sent + skipped + errors: each considered invoice is counted in exactly
\* one of the three outcome counters.
C30_ProcessedIsSumOfOutcomes ==
    /\ [][/\ (RunStarts /\ get_settings(reminder_settings).enabled) =>
                results'.processed =
                   Cardinality({i \in DOMAIN invoices : invoices[i].status = OVERDUE})
          /\ Iteration => results'.processed = results.processed
          /\ RunReturns =>
                /\ returned'.processed = results.processed
                /\ returned'.processed =
                      returned'.sent + returned'.skipped + returned'.errors]_vars
    /\ [](pc = "loop" =>
             results.processed = results.sent + results.skipped + results.errors
                                    + Cardinality(DOMAIN overdue_invoices))

\* A run over two overdue invoices has returned with one reminder sent and one failure.
C30_Witness ==
    /\ pc = "idle"
    /\ "processed" \in DOMAIN returned
    /\ returned.processed = 2
    /\ returned.sent = 1
    /\ returned.errors = 1
    /\ returned.skipped = 0

RefusedUpdate ==
    /\ "operation" \in DOMAIN returned'
    /\ \/ returned'.operation = "update_quantity" /\ returned'.argument <= 0
       \/ returned'.operation = "update_unit_price" /\ returned'.argument < 0

\* C32: an item's total is quantity * unit_price after construction and after every
\* update_quantity and update_unit_price; an update with a quantity <= 0 or a unit
\* price < 0 raises ValueError and leaves the item as it was, and every other update
\* raises nothing and stores the value it was passed.
C32_ItemTotalKept ==
    /\ [](\A i \in DOMAIN invoices :
             invoices[i].total = invoices[i].quantity * invoices[i].unit_price)
    /\ [][/\ RefusedUpdate => /\ returned'.raised = ValueError
                               /\ invoices' = invoices
          /\ (\E i \in DOMAIN invoices : UpdateQuantity(i)) /\ ~RefusedUpdate
                 => /\ returned'.raised = ""
                    /\ \A i \in DOMAIN invoices :
                           invoices'[i].quantity = returned'.argument
          /\ (\E i \in DOMAIN invoices : UpdateUnitPrice(i)) /\ ~RefusedUpdate
                 => /\ returned'.raised = ""
                    /\ \A i \in DOMAIN invoices :
                           invoices'[i].unit_price = returned'.argument]_vars

\* An item of 3 x 10.00 after both updates succeeded, the last call having been
\* refused.
C32_Witness ==
    /\ \E i \in DOMAIN invoices :
          /\ invoices[i].quantity = 3
          /\ invoices[i].unit_price = 100000
          /\ invoices[i].total = 300000
    /\ "raised" \in DOMAIN returned
    /\ returned.raised = ValueError

\* C33: a call of send_invoice changes the stored invoice only when the email was
\* sent, and then it returns True; when the notifier reports a failure or the PDF
\* or email step raises, the call returns False and the stored invoice is as it was.
C33_SentOnlyAfterEmail ==
    [][\A i \in DOMAIN invoices :
          ServiceSendInvoice(i) =>
              /\ invoices' # invoices =>
                     /\ last'.send = "delivered"
                     /\ returned' = [send_invoice |-> TRUE]
                     /\ invoices'[i].status = SENT
              /\ last'.send \in {"not_sent", "render_error"} =>
                     /\ returned' = [send_invoice |-> FALSE]
                     /\ invoices' = invoices]_vars

\* An invoice sent on an earlier day, for which a later call of send_invoice found
\* the notifier reporting a failure.
C33_Witness ==
    /\ \E i \in DOMAIN invoices :
          /\ invoices[i].status = SENT
          /\ invoices[i].sent_at # None
          /\ invoices[i].sent_at < now
    /\ last.send = "not_sent"
    /\ returned = [send_invoice |-> FALSE]

\* C34: a call of record_payment that returns has stored one more payment for the
\* invoice and left the invoice PAID; a call that raises has stored nothing.
C34_PaymentCommitsWithPaid ==
    [][\A i \in DOMAIN invoices :
          RecordPayment(i) =>
              IF returned'.raised = ""
              THEN /\ Len(invoices'[i].payments) = Len(invoices[i].payments) + 1
                   /\ invoices'[i].status = PAID
              ELSE invoices' = invoices]_vars

RECURSIVE sum_of_refunds(_, _)
\* What the refund rows among payments that name payment_id have given back.
sum_of_refunds(payments, payment_id) ==
    IF Len(payments) = 0 THEN 0
    ELSE LET payment == payments[Len(payments)]
         IN  sum_of_refunds(SubSeq(payments, 1, Len(payments) - 1), payment_id)
             + (IF payment.is_refund /\ payment.notes = payment_id
                THEN 0 - payment.amount ELSE 0)

\* C35: the refunds issued against a payment never add up to more than the payment,
\* and no refund is issued against a refund.
C35_RefundsWithinPayment ==
    \A i \in DOMAIN invoices :
        \A payment_id \in 1..Len(invoices[i].payments) :
            LET payment == invoices[i].payments[payment_id]
            IN  IF payment.is_refund
                THEN sum_of_refunds(invoices[i].payments, payment_id) = 0
                ELSE sum_of_refunds(invoices[i].payments, payment_id) <= payment.amount

\* The step called mark_as_sent or mark_as_failed for reminder k of invoice i.
Marks(i, k) ==
    /\ ReminderMarkAsSent(i) \/ ReminderMarkAsFailed(i)
    /\ returned'.reminder_id = k

\* C36: mark_as_sent and mark_as_failed act on a SCHEDULED reminder only. Called for
\* a SENT or FAILED reminder they return None and change nothing, so a reminder that
\* left SCHEDULED stays as it is, and the invoice's reminder count moves by one at
\* most, and only in a step that marks a SCHEDULED reminder as sent.
C36_ReminderMarkedOnce ==
    [][\A i \in DOMAIN invoices :
          /\ \A k \in 1..Len(invoices[i].reminders) :
                 /\ invoices[i].reminders[k].status # SCHEDULED =>
                        invoices'[i].reminders[k] = invoices[i].reminders[k]
                 /\ Marks(i, k) /\ invoices[i].reminders[k].status # SCHEDULED =>
                        /\ returned'.result = <<>>
                        /\ invoices' = invoices
                 /\ Marks(i, k) /\ invoices[i].reminders[k].status = SCHEDULED =>
                        /\ returned'.result = <<k>>
                        /\ invoices'[i].reminders[k].status =
                               IF returned'.operation = "mark_as_sent"
                               THEN ReminderSent ELSE FAILED
          /\ invoices'[i].reminder_count # invoices[i].reminder_count =>
                 /\ invoices'[i].reminder_count = invoices[i].reminder_count + 1
                 /\ \E k \in 1..Len(invoices[i].reminders) :
                        /\ invoices[i].reminders[k].status = SCHEDULED
                        /\ invoices'[i].reminders[k].status = ReminderSent]_vars

\* Both reminders of an invoice were marked, one as sent and one as failed, and a
\* later call for one of them returned None; the sent one was counted once.
C36_Witness ==
    /\ \E i \in DOMAIN invoices :
          /\ Len(invoices[i].reminders) = 2
          /\ invoices[i].reminders[1].status = ReminderSent
          /\ invoices[i].reminders[2].status = FAILED
          /\ invoices[i].reminder_count = 1
    /\ "operation" \in DOMAIN returned
    /\ returned.operation = "mark_as_sent"
    /\ returned.result = <<>>

\* The number of reminders that are SENT.
SentReminders(reminders) ==
    Cardinality({k \in 1..Len(reminders) : reminders[k].status = ReminderSent})

\* C37: an invoice's reminder_count is the number of its reminders that are SENT.
C37_CountIsSentReminders ==
    \A i \in DOMAIN invoices :
        invoices[i].reminder_count = SentReminders(invoices[i].reminders)

\* C38: a PAID invoice has its paid_at set, and a SENT or OVERDUE invoice has its
\* sent_at set, in every state reached from a new DRAFT invoice by send,
\* check_overdue, mark_as_paid, cancel and record_reminder_sent.
C38_TimestampsFollowStatus ==
    \A i \in DOMAIN invoices :
        /\ invoices[i].status = PAID => invoices[i].paid_at # None
        /\ invoices[i].status \in {SENT, OVERDUE} => invoices[i].sent_at # None

\* An invoice that was sent, became overdue, was reminded and was then paid.
C38_Witness ==
    \E i \in DOMAIN invoices :
        /\ invoices[i].status = PAID
        /\ invoices[i].sent_at # None
        /\ invoices[i].paid_at # None
        /\ invoices[i].sent_at < invoices[i].paid_at
        /\ Len(invoices[i].reminder_sent_at) > 0

\* The rows of user_id with the email, in whatever spelling, in the table customers.
CustomersOf(customers, user_id, email) ==
    {k \in 1..Len(customers) :
         customers[k].user_id = user_id /\ lower(customers[k].email) = lower(email)}

\* C39: a user has at most one customer with a given email, and every call of
\* get_or_create(user_id, email) returns a customer of that user with that email:
\* a new one, with created = True, when the user had none, and the one the user has,
\* with created = False, otherwise, whoever else owns a customer with the email.
C39_GetOrCreateIdempotent ==
    /\ [](\A user_id \in UserIds, email \in EmailChoices :
             Cardinality(CustomersOf(invoices, user_id, email)) <= 1)
    /\ [][GetOrCreate =>
              /\ "customer" \in DOMAIN returned'
              /\ returned'.customer \in CustomersOf(invoices', last'.id, last'.number)
              /\ returned'.created =
                     (CustomersOf(invoices, last'.id, last'.number) = {})]_vars

\* The configured days that days_overdue has not passed.
DaysAhead(settings, overdue) ==
    {settings.reminder_days[k] : k \in 1..Len(settings.reminder_days)}
        \cap overdue..MaxPolicyDay

\* C40: get_next_reminder_day(days_overdue) is the smallest configured day d with
\* days_overdue <= d, in whatever order the days are stored, and None exactly when
\* every configured day is smaller than days_overdue.
C40_NextDayIsSmallestAhead ==
    "next_reminder_day" \in DOMAIN returned =>
        LET ahead == DaysAhead(reminder_settings[1], returned.days_overdue)
        IN  IF ahead = {}
            THEN returned.next_reminder_day = None
            ELSE /\ returned.next_reminder_day \in ahead
                 /\ \A d \in ahead : returned.next_reminder_day <= d

\* Days stored as 7, 3, 5 and two days overdue: the next reminder day is 3.
C40_Witness ==
    /\ reminder_settings[1].reminder_days = <<7, 3, 5>>
    /\ "next_reminder_day" \in DOMAIN returned
    /\ returned.days_overdue = 2
    /\ returned.next_reminder_day = 3

====
